---------------------------- MODULE Spec2Model ----------------------------
(***************************************************************************)
(* Content resolution with fallback in the church web site: the three      *)
(* route handlers events GET, giving-page GET and tenant-settings GET read *)
(* a remote store and answer with live content or with a bundled default.  *)
(* Around them: the useEvents hook that fetches the events route, the      *)
(* contact POST handler that stores a form submission, and the Stripe      *)
(* webhook POST handler that updates the donation tables, and the donation *)
(* POST handler that creates a payment and records it as pending.          *)
(*                                                                         *)
(* Specifications                                                          *)
(*  - Spec: one request to a content route.                                *)
(*  - SpecTwice: the same content request made twice in a row.             *)
(*  - SpecHook: a component mounting the useEvents hook.                   *)
(*  - SpecContact: one submission of the contact form.                     *)
(*  - SpecWebhook: deliveries to the Stripe webhook.                       *)
(*  - SpecDonation: a donation request and the deliveries that follow it.  *)
(*                                                                         *)
(* Conventions of the model                                                *)
(*  - JavaScript strings are TLA+ strings; null in a string field is the   *)
(*    value NULL; null in an object field (primary_image) is the empty     *)
(*    sequence and a present object is the one-element sequence holding it.*)
(*  - A query's `data` is a sequence of rows; the code treats a null data  *)
(*    and an empty array alike in every test it makes, so null data is the *)
(*    empty sequence.                                                      *)
(*  - ISO timestamps are the integers YYYYMMDDHH, which keeps their order. *)
(*  - A JSON body is a record; a field the handler does not write is not   *)
(*    in the record's DOMAIN.                                              *)
(***************************************************************************)
EXTENDS Integers, Sequences, FiniteSets, TLC

VARIABLES
    events,             \* table events: a set of rows
    event_images,       \* table event_images: a set of rows
    tenant_settings,    \* table tenant_settings: a set of rows
    pages,              \* table pages: a set of rows
    page_sections,      \* table page_sections: a set of rows
    payment_categories, \* table payment_categories: a set of rows
    newsletter_subscribers, \* table newsletter_subscribers: a set of rows
    website_messages,   \* table website_messages: a set of rows
    contact_submissions, \* table contact_submissions: a set of rows
    prayer_requests,    \* table prayer_requests: a set of rows
    transactions,       \* table transactions: a set of rows
    recurring_donations, \* table recurring_donations: a set of rows
    contacts,           \* table contacts: a set of rows
    stripe,             \* the objects the payment processor holds
    bundled,            \* the module-level default objects, as they are now
    call,               \* the last resolution: its inputs, reads and response
    prev,               \* the resolution before it, where one is kept
    hook,               \* the useEvents hook of a mounted component
    served              \* the number of resolutions made

forms == <<newsletter_subscribers, website_messages, contact_submissions,
           prayer_requests>>
ledger == <<transactions, recurring_donations, contacts>>
store == <<events, event_images, tenant_settings, pages, page_sections,
           payment_categories, forms, ledger, stripe>>
vars == <<store, bundled, call, prev, hook, served>>

-----------------------------------------------------------------------------
(* Bounds of the model *)

NumEvents == 11
NumImages == 3
NumSettings == 2
NumPages == 4
NumSections == 4
NumFunds == 3
MaxRequests == 1
MaxMounts == 2
MaxDeliveries == 2

-----------------------------------------------------------------------------
(* Text *)

NULL == "<null>"

Falsy(s) == s = NULL \/ s = ""

Upper == "ABCDEFGHIJKLMNOPQRSTUVWXYZ"
Lower == "abcdefghijklmnopqrstuvwxyz"
Others == " -0123456789"
OtherCodes == <<32, 45, 48, 49, 50, 51, 52, 53, 54, 55, 56, 57>>

\* the characters of the model's strings and their UTF-16 code units
Codes ==
    [ c \in { SubSeq(Upper, i, i) : i \in 1..Len(Upper) } |->
        64 + CHOOSE i \in 1..Len(Upper) : SubSeq(Upper, i, i) = c ]
    @@ [ c \in { SubSeq(Lower, i, i) : i \in 1..Len(Lower) } |->
        96 + CHOOSE i \in 1..Len(Lower) : SubSeq(Lower, i, i) = c ]
    @@ [ c \in { SubSeq(Others, i, i) : i \in 1..Len(Others) } |->
        OtherCodes[CHOOSE i \in 1..Len(Others) : SubSeq(Others, i, i) = c] ]

LowerOf ==
    [ c \in { SubSeq(Upper, i, i) : i \in 1..Len(Upper) } |->
        LET i == CHOOSE i \in 1..Len(Upper) : SubSeq(Upper, i, i) = c
        IN  SubSeq(Lower, i, i) ]

\* String.prototype.charCodeAt(0) of a one-character string
charCodeAt(c) == Codes[c]

RECURSIVE toLowerCase(_)
toLowerCase(s) ==
    IF s = "" THEN ""
    ELSE LET c == SubSeq(s, 1, 1)
         IN  (IF c \in DOMAIN LowerOf THEN LowerOf[c] ELSE c) \o toLowerCase(Tail(s))

UpperOf ==
    [ c \in { SubSeq(Lower, i, i) : i \in 1..Len(Lower) } |->
        LET i == CHOOSE i \in 1..Len(Lower) : SubSeq(Lower, i, i) = c
        IN  SubSeq(Upper, i, i) ]

RECURSIVE toUpperCase(_)
toUpperCase(s) ==
    IF s = "" THEN ""
    ELSE LET c == SubSeq(s, 1, 1)
         IN  (IF c \in DOMAIN UpperOf THEN UpperOf[c] ELSE c) \o toUpperCase(Tail(s))

includes(s, t) ==
    \E i \in 1..(Len(s) - Len(t) + 1) : SubSeq(s, i, i + Len(t) - 1) = t

-----------------------------------------------------------------------------
(* The remote store: what a read can come back with *)

NoError == [message |-> "", code |-> ""]

\* a denial worded as a row-level-security violation, a denial known by its
\* SQLSTATE only, and an unreachable store
Errors ==
    { [message |-> "new row violates row-level security policy", code |-> "PGRST301"],
      [message |-> "permission denied for table", code |-> "42501"],
      [message |-> "fetch failed", code |-> ""] }

\* a read returns rows, returns an error object, or its promise rejects
Outcomes ==
    { [kind |-> "rows", error |-> NoError], [kind |-> "throw", error |-> NoError] }
    \cup { [kind |-> "error", error |-> e] : e \in Errors }

\* all enumerations of the pairs <<key, row>> of P in ascending key order
RECURSIVE SortedSeqs(_)
SortedSeqs(P) ==
    IF P = {} THEN { <<>> }
    ELSE LET m == CHOOSE k \in { p[1] : p \in P } : \A p \in P : k <= p[1]
         IN  UNION { { <<p[2]>> \o s : s \in SortedSeqs(P \ {p}) } :
                     p \in { q \in P : q[1] = m } }

Limit(s, n) == IF Len(s) > n THEN SubSeq(s, 1, n) ELSE s

-----------------------------------------------------------------------------
(* Responses *)

Json(status, body) == [status |-> status, body |-> body]

\* how a block of code ends: it returns a response or an exception leaves it;
\* reads: the tables read so far; writes: the inserts and updates sent so far;
\* bundled: the module-level default objects as the block leaves them;
\* caught: a catch clause produced the response
Return(resp, reads) ==
    [completion |-> "return", resp |-> resp, reads |-> reads, writes |-> <<>>,
     bundled |-> bundled, caught |-> FALSE]

Throw(reads) ==
    [completion |-> "throw", resp |-> Json(0, <<>>), reads |-> reads,
     writes |-> <<>>, bundled |-> bundled, caught |-> FALSE]

\* { ...a, ...b }
Spread(a, b) ==
    [k \in DOMAIN a \cup DOMAIN b |-> IF k \in DOMAIN b THEN b[k] ELSE a[k]]

NoCatch(body, handler) == body

\* try { body } catch { return handler }
TryCatch(body, handler) ==
    IF body.completion = "throw"
    THEN [Return(handler, body.reads) EXCEPT !.caught = TRUE,
                                             !.writes = body.writes,
                                             !.bundled = body.bundled]
    ELSE body

-----------------------------------------------------------------------------
(* events GET *)

defaultEvents ==
    << [id |-> "default-1", name |-> "Sunday Worship Experience",
        event_date |-> 2024012809, location |-> "Main Sanctuary",
        description |-> "Join us for an inspiring worship experience with contemporary music and biblical teaching.",
        capacity |-> 200, primary_image |-> <<>>,
        gradient |-> "from-blue-800 to-indigo-900", type |-> "worship"],
       [id |-> "default-2", name |-> "Midweek Connection",
        event_date |-> 2024013119, location |-> "Fellowship Hall",
        description |-> "Dive deeper into God's word through interactive Bible study and fellowship.",
        capacity |-> 50, primary_image |-> <<>>,
        gradient |-> "from-purple-800 to-pink-900", type |-> "study"],
       [id |-> "default-3", name |-> "Youth Ignite Night",
        event_date |-> 2024020219, location |-> "Youth Center",
        description |-> "High-energy youth service with games, worship, and relevant messages for teens.",
        capacity |-> 100, primary_image |-> <<>>,
        gradient |-> "from-green-800 to-teal-900", type |-> "youth"],
       [id |-> "default-4", name |-> "Community Outreach",
        event_date |-> 2024020510, location |-> "Community Center",
        description |-> "Join us as we serve our community with love and compassion through various outreach programs.",
        capacity |-> 150, primary_image |-> <<>>,
        gradient |-> "from-orange-800 to-red-900", type |-> "outreach"] >>

EventsLimit == 10

gradients ==
    << "from-blue-800 to-indigo-900", "from-purple-800 to-pink-900",
       "from-green-800 to-teal-900", "from-orange-800 to-red-900",
       "from-teal-800 to-cyan-900", "from-rose-800 to-pink-900" >>

RECURSIVE CharCodeSum(_)
CharCodeSum(s) ==
    IF s = "" THEN 0 ELSE charCodeAt(SubSeq(s, 1, 1)) + CharCodeSum(Tail(s))

\* a gradient that moves on with a module-level counter
rotatingGradient(name, id) ==
    gradients[((CharCodeSum(id) + served) % Len(gradients)) + 1]

getEventGradient(name, id) ==
    LET hash == CharCodeSum(id)
    IN  gradients[(hash % Len(gradients)) + 1]

getEventType(name, description) ==
    LET content ==
            toLowerCase(name \o " " \o (IF Falsy(description) THEN "" ELSE description))
        has(w) == includes(content, w)
    IN  IF has("worship") \/ has("service") \/ has("sunday") THEN "worship"
        ELSE IF has("youth") \/ has("teen") \/ has("young") THEN "youth"
        ELSE IF has("study") \/ has("bible") \/ has("prayer") THEN "study"
        ELSE IF has("outreach") \/ has("community") \/ has("serve") THEN "outreach"
        ELSE IF has("conference") \/ has("seminar") \/ has("retreat") THEN "conference"
        ELSE "event"

\* .from('events').select('*').gte('event_date', today)
\*   .order('event_date', { ascending: true }).limit(10)
EventsQuery(table, today) ==
    { Limit(s, EventsLimit) :
        s \in SortedSeqs({ <<r.event_date, r>> : r \in { e \in table : e.event_date >= today } }) }

\* .from('event_images').select('*').in('event_id', eventIds)
\*   .order('sort_order', { ascending: true })
ImagesQuery(table, eventIds) ==
    SortedSeqs({ <<r.sort_order, r>> : r \in { i \in table : i.event_id \in eventIds } })

Ids(rows) == { rows[k].id : k \in 1..Len(rows) }

\* imagesByEvent[eventId][0] for every event id that has an image
LastImageMap(images) ==
    [ id \in { images[k].event_id : k \in 1..Len(images) } |->
        images[CHOOSE k \in 1..Len(images) :
                 /\ images[k].event_id = id
                 /\ \A j \in 1..Len(images) : images[j].event_id = id => j <= k] ]

imageMap(images) ==
    [ id \in { images[k].event_id : k \in 1..Len(images) } |->
        images[CHOOSE k \in 1..Len(images) :
                 /\ images[k].event_id = id
                 /\ \A j \in 1..Len(images) : images[j].event_id = id => k <= j] ]

transformEvent(event, imgs) ==
    [ id |-> event.id,
      name |-> event.name,
      event_date |-> event.event_date,
      location |-> IF Falsy(event.location) THEN "Location TBD" ELSE event.location,
      description |-> IF Falsy(event.description)
                      THEN "Join us for this special event." ELSE event.description,
      capacity |-> event.capacity,
      primary_image |-> IF event.id \in DOMAIN imgs THEN <<imgs[event.id]>> ELSE <<>>,
      gradient |-> getEventGradient(event.name, event.id),
      type |-> getEventType(event.name, event.description) ]

NoEventsDefault(message) ==
    Json(200, [events |-> <<>>, source |-> "default", message |-> message])

EventsDefault(message) ==
    Json(200, [events |-> bundled.events, source |-> "default", message |-> message])

\* the response built from the event rows and the image rows at hand
EventsBody(rows, data) ==
    LET imgs == imageMap(data)
        transformedEvents == [k \in 1..Len(rows) |-> transformEvent(rows[k], imgs)]
    IN  [ events |-> transformedEvents,
          source |-> "database",
          message |-> "Loaded " \o ToString(Len(transformedEvents))
                      \o " upcoming events from database" ]

EventsEnrichStrict(rows, io, images) ==
    IF io.kind = "throw" THEN Throw(<<"events", "event_images">>)
    ELSE IF io.kind = "error"
    THEN Return(EventsDefault("Using default events - Database error: "
                              \o io.error.message),
                <<"events", "event_images">>)
    ELSE Return(Json(200, EventsBody(rows, images)), <<"events", "event_images">>)

\* an image lookup that is sent a second time when it answers an error
EventsEnrichRetry(rows, io, images) ==
    IF io.kind = "throw" THEN Throw(<<"events", "event_images">>)
    ELSE IF io.kind = "error"
    THEN Return(Json(200, EventsBody(rows, <<>>)),
                <<"events", "event_images", "event_images">>)
    ELSE Return(Json(200, EventsBody(rows, images)), <<"events", "event_images">>)

\* the image lookup and the transform; only `data` of the lookup's result is
\* taken, its error is not looked at
EventsEnrich(rows, io, images) ==
    IF io.kind = "throw" THEN Throw(<<"events", "event_images">>)
    ELSE LET data == IF io.kind = "rows" THEN images ELSE <<>>
         IN  Return(Json(200, EventsBody(rows, data)), <<"events", "event_images">>)

\* the body of the try block; co: createServerSupabaseClient returns or throws;
\* po, io: the outcomes of the two reads; rows, images: what they return when
\* they return rows
EventsTry(env, co, po, rows, io, images) ==
    IF ~env.url \/ ~env.anon
    THEN Return(EventsDefault("Using default events - Supabase not configured"), <<>>)
    ELSE IF co = "throw"
    THEN Return(EventsDefault("Using default events - Supabase client failed"), <<>>)
    ELSE IF po.kind = "throw" THEN Throw(<<"events">>)
    ELSE IF po.kind = "error"
    THEN Return(EventsDefault("Using default events - Database error: "
                              \o po.error.message),
                <<"events">>)
    ELSE IF Len(rows) = 0
    THEN Return(EventsDefault("Using default events - No upcoming events found"),
                <<"events">>)
    ELSE EventsEnrich(rows, io, images)

EventsCatch == EventsDefault("Using default events - Unexpected error")

EventsGET(env, co, po, rows, io, images) ==
    TryCatch(EventsTry(env, co, po, rows, io, images), EventsCatch)

-----------------------------------------------------------------------------
(* tenant-settings GET *)

defaultSettings(now) ==
    [ id |-> "default", name |-> "DOCM Church", time_zone |-> "America/New_York",
      primary_color |-> "#1A202C", secondary_color |-> "#F6E05E",
      description |-> "Demonstration of Christ Ministries",
      created_at |-> now, updated_at |-> now ]

\* .from('tenant_settings').select('*').limit(1): any one row, no order given
TenantQuery(table) == IF table = {} THEN { <<>> } ELSE { <<r>> : r \in table }

TenantKey(env) == IF env.service THEN "service" ELSE "anon"

TenantDefault(now, message) ==
    Json(200, [success |-> TRUE, data |-> defaultSettings(now),
               message |-> message, source |-> "default"])

\* a no-settings branch that stores the default settings it answers with
TenantSeedsSettings(now) ==
    [ Return(TenantDefault(now, "No tenant settings found, using defaults"),
             <<"tenant_settings">>)
      EXCEPT !.writes = << [op |-> "insert", table |-> "tenant_settings",
                            row |-> defaultSettings(now), ok |-> TRUE] >> ]

\* if (!settings || settings.length === 0): the defaults are answered, nothing
\* is stored
TenantNoSettings(now) ==
    Return(TenantDefault(now, "No tenant settings found, using defaults"),
           <<"tenant_settings">>)

\* the body of the try block; cc: createClient returns or throws
TenantTry(env, cc, po, settings, now) ==
    IF ~env.url \/ ~env.anon
    THEN Return(Json(500, [error |-> "Database configuration missing",
                           success |-> FALSE]), <<>>)
    ELSE IF cc = "throw" THEN Throw(<<>>)
    ELSE IF po.kind = "throw" THEN Throw(<<"tenant_settings">>)
    ELSE IF po.kind = "error"
    THEN IF includes(po.error.message, "row-level security") \/ po.error.code = "42501"
         THEN Return(TenantDefault(now,
                        "Using default tenant settings - database not accessible"),
                     <<"tenant_settings">>)
         ELSE Return(Json(500, [error |-> po.error.message]), <<"tenant_settings">>)
    ELSE IF Len(settings) = 0 THEN TenantNoSettings(now)
    ELSE Return(Json(200, [success |-> TRUE, data |-> settings[1],
                           message |-> "Tenant settings found",
                           source |-> "database"]),
                <<"tenant_settings">>)

TenantCatch(now, thrown) ==
    Json(200, [success |-> TRUE, data |-> defaultSettings(now),
               message |-> "Error occurred, using default settings",
               source |-> "default", error |-> thrown])

TenantGET(env, cc, po, settings, now, thrown) ==
    TryCatch(TenantTry(env, cc, po, settings, now), TenantCatch(now, thrown))

\* POST: creation is refused, whatever is sent
TenantPOST(settings) ==
    Return(Json(403, [error |->
        "Tenant settings creation not allowed from web frontend. Use admin panel."]),
           <<>>)

-----------------------------------------------------------------------------
(* giving-page GET *)

defaultGivingPageContent ==
    [ hero |->
        [ first_line_text |-> "Give",
          heading |-> "Your generosity changes lives.",
          subheading |-> "Through your faithful giving, we're able to serve our community, support missions, and further God's kingdom. Every gift, large or small, makes a meaningful difference.",
          background_image |-> NULL,
          cta_primary |-> "Make a Donation",
          cta_secondary |-> "Learn More" ],
      giving_methods |->
        [ section_title |-> "Ways to Give",
          section_heading |-> "Multiple Giving Options",
          section_description |-> "Choose the giving method that works best for you. All donations are secure and tax-deductible.",
          methods |->
            << [ id |-> "online", title |-> "Online Giving",
                 description |-> "Secure, convenient giving through our website",
                 icon |-> "credit-card",
                 features |-> <<"One-time or recurring", "Instant receipts",
                                "Multiple payment methods">> ],
               [ id |-> "text", title |-> "Text to Give",
                 description |-> "Quick giving via text message",
                 icon |-> "phone",
                 features |-> <<"Text amount to donate", "Set up recurring gifts",
                                "Secure and simple">> ],
               [ id |-> "check", title |-> "Check or Cash",
                 description |-> "Traditional giving methods welcomed",
                 icon |-> "banknote",
                 features |-> <<"Drop in offering", "Mail to church",
                                "In-person giving">> ] >> ],
      fund_designations |->
        << [ id |-> "general", name |-> "General Fund",
             description |-> "Supports overall church operations and ministries" ],
           [ id |-> "building", name |-> "Building Fund",
             description |-> "Facility improvements and expansion projects" ],
           [ id |-> "missions", name |-> "Missions",
             description |-> "Supporting missionaries and outreach efforts" ],
           [ id |-> "youth", name |-> "Youth Ministry",
             description |-> "Programs and activities for young people" ],
           [ id |-> "children", name |-> "Children's Ministry",
             description |-> "Kids programs and Sunday school" ],
           [ id |-> "outreach", name |-> "Community Outreach",
             description |-> "Local community service and support" ] >>,
      impact |->
        [ section_title |-> "Your Impact",
          section_heading |-> "See How Your Gifts Make a Difference",
          section_description |-> "Your faithful giving enables us to transform lives and serve our community in countless ways.",
          stats |->
            << [ label |-> "Families Served", value |-> "500+",
                 description |-> "Through our food pantry and assistance programs" ],
               [ label |-> "Youth Impacted", value |-> "150+",
                 description |-> "Participating in youth programs and activities" ],
               [ label |-> "Missionaries Supported", value |-> "12",
                 description |-> "Local and international mission work" ],
               [ label |-> "Community Events", value |-> "25+",
                 description |-> "Annual outreach and service events" ] >> ] ]

GivingDefault(source) ==
    Json(200, Spread(bundled.giving, [source |-> source]))

\* PostgREST's answer to .single() when the filter does not match exactly one row
SingleError ==
    [message |-> "JSON object requested, multiple (or no) rows returned",
     code |-> "PGRST116"]

\* .from('pages').select(...).eq('slug', 'giving').not('published_at', 'is', null)
PagesQuery(table) == { p \in table : p.slug = "giving" /\ p.published_at # <<>> }

\* .from('page_sections').select('id, type, order, props').eq('page_id', id)
\*   .order('order', { ascending: true })
SectionsQuery(table, pageId) ==
    SortedSeqs({ <<r.order, [id |-> r.id, type |-> r.type, order |-> r.order,
                             props |-> r.props]>> :
                 r \in { x \in table : x.page_id = pageId } })

\* .from('payment_categories').select('id, name, description, is_active')
\*   .eq('is_active', true).order('order', { ascending: true })
FundsQuery(table) ==
    SortedSeqs({ <<r.order, [id |-> r.id, name |-> r.name,
                             description |-> r.description,
                             is_active |-> r.is_active]>> :
                 r \in { x \in table : x.is_active } })

mapFund(fund) ==
    [ id |-> fund.id,
      name |-> fund.name,
      description |-> IF Falsy(fund.description)
                      THEN "Support our " \o toLowerCase(fund.name)
                      ELSE fund.description ]

SectionTypes == {"hero", "giving_methods", "impact"}

GivingFields == {"hero", "giving_methods", "fund_designations", "impact"}

\* JavaScript objects are held by reference: a memory is the objects by address
\* (heap) and the address each field of structuredContent holds (refs); the
\* sub-objects of the module-level defaultGivingPageContent live at DefaultRef
DefaultRef(field) == "default." \o field

LoadDefaults(content) == [a \in {DefaultRef(f) : f \in GivingFields} |->
                            content[CHOOSE f \in GivingFields : DefaultRef(f) = a]]

DefaultsIn(heap) == [f \in GivingFields |-> heap[DefaultRef(f)]]

Deref(mem) == [f \in GivingFields |-> mem.heap[mem.refs[f]]]

\* Object.assign(structuredContent[type], section.props): writes into the object
\* the field refers to
RECURSIVE assignSections(_, _, _)
assignSections(mem, sections, k) ==
    IF k > Len(sections) THEN mem
    ELSE LET section == sections[k]
             next == IF section.type \in SectionTypes /\ section.props # <<>>
                     THEN [mem EXCEPT !.heap[mem.refs[section.type]] =
                               Spread(@, section.props[1])]
                     ELSE mem
         IN  assignSections(next, sections, k + 1)

\* sectionsData.forEach(section => switch (section.type) ...), from section k on:
\* structuredContent[type] = { ...structuredContent[type], ...section.props }
\* builds a new object and makes the field refer to it
RECURSIVE applySections(_, _, _)
applySections(mem, sections, k) ==
    IF k > Len(sections) THEN mem
    ELSE LET section == sections[k]
             fresh == "section." \o ToString(k)
             next == IF section.type \in SectionTypes /\ section.props # <<>>
                     THEN [heap |-> (fresh :> Spread(mem.heap[mem.refs[section.type]],
                                                     section.props[1])) @@ mem.heap,
                           refs |-> [mem.refs EXCEPT ![section.type] = fresh]]
                     ELSE mem
         IN  applySections(next, sections, k + 1)

\* the body of the try block; cc: createServerSupabaseClient returns or throws;
\* po, so, fo: the outcomes of the reads of pages, page_sections and
\* payment_categories; pageRows: the rows the pages filter matches;
\* sections, funds: what the last two reads return as rows
GivingTry(cc, po, pageRows, so, sections, fo, funds) ==
    IF cc = "throw" THEN Throw(<<>>)
    ELSE IF po.kind = "throw" THEN Throw(<<"pages">>)
    ELSE LET pageError == IF po.kind = "error" THEN po.error
                          ELSE IF Cardinality(pageRows) = 1 THEN NoError
                          ELSE SingleError
         IN
    IF pageError # NoError THEN Return(GivingDefault("default"), <<"pages">>)
    ELSE IF so.kind = "throw" THEN Throw(<<"pages", "page_sections">>)
    ELSE IF so.kind = "error"
    THEN Return(GivingDefault("default"), <<"pages", "page_sections">>)
    ELSE IF fo.kind = "throw"
    THEN Throw(<<"pages", "page_sections", "payment_categories">>)
    ELSE LET sectionsData == IF so.kind = "rows" THEN sections ELSE <<>>
             fundData == IF fo.kind = "rows" THEN funds ELSE <<>>
             mapped == fo.kind = "rows" /\ Len(fundData) > 0
             loaded == LoadDefaults(bundled.giving)
             structuredContent ==
                 [ heap |-> IF mapped
                            THEN ("funds" :> [k \in 1..Len(fundData) |->
                                                 mapFund(fundData[k])]) @@ loaded
                            ELSE loaded,
                   refs |-> [ hero |-> DefaultRef("hero"),
                              giving_methods |-> DefaultRef("giving_methods"),
                              fund_designations |->
                                  IF mapped THEN "funds"
                                  ELSE DefaultRef("fund_designations"),
                              impact |-> DefaultRef("impact") ] ]
             final == applySections(structuredContent, sectionsData, 1)
         IN  [ Return(Json(200, Spread(Deref(final), [source |-> "database"])),
                      <<"pages", "page_sections", "payment_categories">>)
               EXCEPT !.bundled.giving = DefaultsIn(final.heap) ]

GivingCatch == GivingDefault("error_fallback")

GivingGET(cc, po, pageRows, so, sections, fo, funds) ==
    TryCatch(GivingTry(cc, po, pageRows, so, sections, fo, funds), GivingCatch)

-----------------------------------------------------------------------------
(* contact POST *)

\* JavaScript values of the opt-in fields, written as their literals
OptInValues == {"true", "'true'", "1", "false", "undefined", "'on'"}

\* v === true || v === 'true' || v === 1
OptIn(v) == v \in {"true", "'true'", "1"}

\* v || false
OrFalse(v) == IF v \in {"false", "undefined"} THEN "false" ELSE v

\* the position of the first space of s, 0 if it has none
RECURSIVE IndexOfSpace(_, _)
IndexOfSpace(s, k) ==
    IF k > Len(s) THEN 0
    ELSE IF SubSeq(s, k, k) = " " THEN k
    ELSE IndexOfSpace(s, k + 1)

\* name.split(' ')[0] || name
FirstName(name) ==
    LET i == IndexOfSpace(name, 1)
        first == IF i = 0 THEN name ELSE SubSeq(name, 1, i - 1)
    IN  IF first = "" THEN name ELSE first

\* name.split(' ').slice(1).join(' ') || ''
LastName(name) ==
    LET i == IndexOfSpace(name, 1)
    IN  IF i = 0 THEN "" ELSE SubSeq(name, i + 1, Len(name))

\* an insert sent to a table; ok: the store applied it
Insert(table, row, o) ==
    [op |-> "insert", table |-> table, row |-> row, ok |-> o.kind \in {"rows", "empty"}]

\* how .insert([...]).select() ends: the row is stored and returned (rows), is
\* stored and no data comes back (empty), the store answers an error and stores
\* nothing, or the call throws and nothing is stored
InsertOutcomes ==
    { [kind |-> "rows", error |-> NoError], [kind |-> "empty", error |-> NoError],
      [kind |-> "throw", error |-> NoError],
      [kind |-> "error",
       error |-> [message |-> "new row violates row-level security policy",
                  code |-> "42501"]] }

newsletterPayload(body, timestamp) ==
    [ email |-> body.email, first_name |-> FirstName(body.name),
      last_name |-> LastName(body.name), subscribed_at |-> timestamp,
      status |-> "active", subscription_source |-> "contact_form" ]

isPrayerRequest(body) == OptIn(body.prayer) \/ body.category = "Prayer Request"

messageCategory(body) ==
    IF ~Falsy(body.category) THEN body.category
    ELSE IF isPrayerRequest(body) THEN "Prayer Request" ELSE "General Inquiry"

websiteMessagePayload(body, submissionId, timestamp) ==
    [ id |-> submissionId, name |-> body.name, email |-> body.email,
      phone |-> IF Falsy(body.phone) THEN NULL ELSE body.phone,
      subject |-> body.subject, category |-> messageCategory(body),
      message |-> body.message, source |-> "website",
      newsletter_opt_in |-> OrFalse(body.newsletter), submitted_at |-> timestamp,
      status |-> "unread", is_prayer_request |-> isPrayerRequest(body) ]

fallbackPayload(body, submissionId, timestamp) ==
    [ id |-> submissionId, name |-> body.name, email |-> body.email,
      phone |-> IF Falsy(body.phone) THEN NULL ELSE body.phone,
      subject |-> body.subject, category |-> messageCategory(body),
      message |-> body.message, newsletter_opt_in |-> OrFalse(body.newsletter),
      is_prayer_request |-> isPrayerRequest(body), submitted_at |-> timestamp,
      status |-> "new" ]

prayerPayload(body, prayerId, submissionId, timestamp) ==
    [ id |-> prayerId, contact_id |-> NULL, title |-> body.subject,
      description |-> body.message, status |-> "new", submitted_at |-> timestamp,
      urgency |-> "normal", is_confidential |-> TRUE, source |-> "website",
      source_submission_id |-> submissionId ]

\* a validation that looks at name and email only
MissingNameOrEmail(body) == Falsy(body.name) \/ Falsy(body.email)

\* !name || !email || !subject || !message
MissingRequired(body) ==
    Falsy(body.name) \/ Falsy(body.email) \/ Falsy(body.subject) \/ Falsy(body.message)

\* the row the store returns for a stored subscriber
Subscriber(payload) == Spread(payload, [id |-> "sub-" \o payload.email])

\* a newsletter block without its try/catch: an exception of the insert leaves it
subscribeNewsletterUncaught(body, timestamp, o) ==
    IF ~OptIn(body.newsletter)
    THEN [sent |-> <<>>, newsletterResult |-> <<>>, thrown |-> FALSE]
    ELSE LET payload == newsletterPayload(body, timestamp)
         IN  [ sent |-> << Insert("newsletter_subscribers", Subscriber(payload), o) >>,
               newsletterResult |-> IF o.kind = "rows" THEN << Subscriber(payload) >>
                                    ELSE <<>>,
               thrown |-> o.kind = "throw" ]

\* the newsletter block: the insert it sends and newsletterResult, the first row
\* of the data that came back; an error is logged, an exception is caught
subscribeNewsletter(body, timestamp, o) ==
    IF ~OptIn(body.newsletter)
    THEN [sent |-> <<>>, newsletterResult |-> <<>>, thrown |-> FALSE]
    ELSE LET payload == newsletterPayload(body, timestamp)
         IN  [ sent |-> << Insert("newsletter_subscribers", Subscriber(payload), o) >>,
               newsletterResult |-> IF o.kind = "rows" THEN << Subscriber(payload) >>
                                    ELSE <<>>,
               thrown |-> FALSE ]

\* the prayer block: the insert it sends; an error is logged, an exception is
\* caught
addPrayerRequest(body, ids, timestamp, o) ==
    IF isPrayerRequest(body)
    THEN << Insert("prayer_requests",
                   prayerPayload(body, ids.prayer, ids.submission, timestamp), o) >>
    ELSE <<>>

contactSuccess(body, submissionId, newsletterResult) ==
    Json(200,
      [ success |-> TRUE,
        message |->
          (IF isPrayerRequest(body)
           THEN "Your prayer request has been submitted. Our pastoral team will keep you in prayer."
           ELSE "Your message has been sent successfully! We'll get back to you soon.")
          \o (IF newsletterResult # <<>>
              THEN " You've also been subscribed to our newsletter." ELSE ""),
        submission_id |-> submissionId,
        type |-> IF isPrayerRequest(body) THEN "prayer_request" ELSE "website_message",
        newsletter_subscribed |-> newsletterResult # <<>>,
        debug |-> [ newsletterResult |-> newsletterResult # <<>>,
                    newsletterResultId |-> IF newsletterResult # <<>>
                                           THEN newsletterResult[1].id ELSE NULL,
                    isPrayerRequest |-> isPrayerRequest(body),
                    originalValues |-> [ newsletter |-> body.newsletter,
                                         prayer |-> body.prayer ] ] ])

\* a fallback that answers success although contact_submissions refused the row
contactFallbackLenient(body, ids, newsletterResult, fo) ==
    IF fo.kind = "throw" THEN Throw(<<>>)
    ELSE Return(contactSuccess(body, ids.submission, newsletterResult), <<>>)

\* how the handler goes on after the contact_submissions insert ended as fo
contactFallback(body, ids, newsletterResult, fo) ==
    IF fo.kind = "throw" THEN Throw(<<>>)
    ELSE IF fo.kind = "error"
    THEN Return(Json(500, [error |-> "Failed to submit contact form"]), <<>>)
    ELSE Return(contactSuccess(body, ids.submission, newsletterResult), <<>>)

\* the body of the try block; parse: request.json() gives an object, gives null
\* (destructuring throws) or throws; ids: the UUIDs drawn; no, wo, fo, pro: the
\* outcomes of the inserts into newsletter_subscribers, website_messages,
\* contact_submissions and prayer_requests
ContactTry(parse, body, ids, timestamp, no, wo, fo, pro) ==
    IF parse # "object" THEN Throw(<<>>)
    ELSE IF MissingRequired(body)
    THEN Return(Json(400, [error |-> "Missing required fields"]), <<>>)
    ELSE LET n == subscribeNewsletter(body, timestamp, no)
             w == Insert("website_messages",
                         websiteMessagePayload(body, ids.submission, timestamp), wo)
             f == Insert("contact_submissions",
                         fallbackPayload(body, ids.submission, timestamp), fo)
             after == contactFallback(body, ids, n.newsletterResult, fo)
             prayer == addPrayerRequest(body, ids, timestamp, pro)
         IN  IF n.thrown THEN [Throw(<<>>) EXCEPT !.writes = n.sent]
             ELSE IF wo.kind = "throw" THEN [Throw(<<>>) EXCEPT !.writes = n.sent \o <<w>>]
             ELSE IF wo.kind = "error"
             THEN IF after.completion = "return" /\ after.resp.status = 200
                  THEN [after EXCEPT !.writes = n.sent \o <<w, f>> \o prayer]
                  ELSE [after EXCEPT !.writes = n.sent \o <<w, f>>]
             ELSE [ Return(contactSuccess(body, ids.submission, n.newsletterResult), <<>>)
                    EXCEPT !.writes = n.sent \o <<w>> \o prayer ]

ContactCatch == Json(500, [error |-> "Internal server error"])

ContactPOST(parse, body, ids, timestamp, no, wo, fo, pro) ==
    TryCatch(ContactTry(parse, body, ids, timestamp, no, wo, fo, pro), ContactCatch)

-----------------------------------------------------------------------------
(* Stripe webhook POST *)

\* an update sent to a table: .update(set).eq(field, value); ok: the store
\* applied it
Update(table, field, value, set, o) ==
    [op |-> "update", table |-> table, field |-> field, value |-> value,
     set |-> set, ok |-> o.kind = "ok"]

\* how an update or an insert without .select() ends: { error: null }, an error, or
\* an exception; the store applies it in the first case only
WriteOutcomes ==
    { [kind |-> "ok", error |-> NoError], [kind |-> "throw", error |-> NoError],
      [kind |-> "error", error |-> [message |-> "permission denied for table",
                                    code |-> "42501"]] }

\* a row of transactions with every column the handlers do not give at null
NullTransaction ==
    [ contact_id |-> NULL, amount |-> 0, currency |-> NULL, category |-> NULL,
      payment_method |-> NULL, payment_status |-> NULL, transacted_at |-> 0,
      notes |-> NULL, stripe_payment_intent_id |-> NULL, stripe_customer_id |-> NULL,
      stripe_charge_id |-> NULL, stripe_invoice_id |-> NULL,
      stripe_subscription_id |-> NULL, is_recurring |-> FALSE, is_anonymous |-> FALSE,
      fund_designation |-> NULL,
      metadata |-> [frequency |-> NULL, source |-> NULL, type |-> NULL,
                    invoice_id |-> NULL] ]

\* new Date(Date.now() + days * 24 * 60 * 60 * 1000): a date kept as an instant and
\* the days added to it; a null date is the empty sequence, a date d is <<d>>
DaysAfter(instant, days) == [instant |-> instant, days |-> days]

\* what a handler leaves: the writes it sent, and whether an exception left it
Handled(writes) == [thrown |-> FALSE, writes |-> writes]

Escaped(writes) == [thrown |-> TRUE, writes |-> writes]

\* a handler that rethrows the error its update returned
handlePaymentIntentSucceededStrict(paymentIntent, now, cc, uo) ==
    LET update == Update("transactions", "stripe_payment_intent_id", paymentIntent.id,
                         [ payment_status |-> "succeeded",
                           stripe_charge_id |-> paymentIntent.latest_charge,
                           transacted_at |-> now ], uo)
    IN  IF cc = "throw" THEN Escaped(<<>>)
        ELSE IF uo.kind \in {"throw", "error"} THEN Escaped(<<update>>)
        ELSE Handled(<<update>>)

\* cc: createServerSupabaseClient returns or throws; uo: the outcome of the write
handlePaymentIntentSucceeded(paymentIntent, now, cc, uo) ==
    LET update == Update("transactions", "stripe_payment_intent_id", paymentIntent.id,
                         [ payment_status |-> "succeeded",
                           stripe_charge_id |-> paymentIntent.latest_charge,
                           transacted_at |-> now ], uo)
    IN  IF cc = "throw" THEN Escaped(<<>>)
        ELSE IF uo.kind = "throw" THEN Escaped(<<update>>)
        ELSE Handled(<<update>>)

handlePaymentIntentFailed(paymentIntent, cc, uo) ==
    LET update == Update("transactions", "stripe_payment_intent_id", paymentIntent.id,
                         [ payment_status |-> "failed",
                           notes |-> IF Falsy(paymentIntent.last_payment_error)
                                     THEN "Payment failed"
                                     ELSE paymentIntent.last_payment_error ], uo)
    IN  IF cc = "throw" THEN Escaped(<<>>)
        ELSE IF uo.kind = "throw" THEN Escaped(<<update>>)
        ELSE Handled(<<update>>)

\* ro: stripe.subscriptions.retrieve returns the subscription or throws
handleInvoicePaymentSucceeded(invoice, now, cc, ro, uo) ==
    IF Falsy(invoice.subscription) THEN Handled(<<>>)
    ELSE IF cc = "throw" \/ ro.kind = "throw" THEN Escaped(<<>>)
    ELSE LET metadata == ro.metadata
             fund == IF Falsy(metadata.fund_designation) THEN "General Fund"
                     ELSE metadata.fund_designation
             transactionData ==
                 [ contact_id |-> IF Falsy(metadata.contact_id) THEN NULL
                                  ELSE metadata.contact_id,
                   amount |-> invoice.amount_paid \div 100,
                   currency |-> toUpperCase(invoice.currency),
                   category |-> fund,
                   payment_method |-> "Stripe (Recurring)",
                   payment_status |-> "succeeded",
                   transacted_at |-> now,
                   stripe_invoice_id |-> invoice.id,
                   stripe_subscription_id |-> invoice.subscription,
                   stripe_customer_id |-> invoice.customer,
                   is_recurring |-> TRUE,
                   is_anonymous |-> FALSE,
                   fund_designation |-> fund,
                   metadata |-> [ frequency |-> IF Falsy(metadata.frequency) THEN "monthly"
                                                ELSE metadata.frequency,
                                  source |-> "church_website",
                                  type |-> "recurring_donation_payment",
                                  invoice_id |-> invoice.id ] ]
             insert == [ op |-> "insert", table |-> "transactions",
                         row |-> Spread(NullTransaction, transactionData),
                         ok |-> uo.kind = "ok" ]
         IN  IF uo.kind = "throw" THEN Escaped(<<insert>>) ELSE Handled(<<insert>>)

handleSubscriptionUpdated(subscription, now, cc, uo) ==
    LET update == Update("recurring_donations", "stripe_subscription_id", subscription.id,
                         [ status |-> subscription.status,
                           next_payment_date |-> IF subscription.status = "active"
                                                 THEN << DaysAfter(now, 30) >>
                                                 ELSE <<>> ], uo)
    IN  IF cc = "throw" THEN Escaped(<<>>)
        ELSE IF uo.kind = "throw" THEN Escaped(<<update>>)
        ELSE Handled(<<update>>)

handleSubscriptionDeleted(subscription, now, cc, uo) ==
    LET update == Update("recurring_donations", "stripe_subscription_id", subscription.id,
                         [status |-> "cancelled", cancelled_at |-> <<now>>], uo)
    IN  IF cc = "throw" THEN Escaped(<<>>)
        ELSE IF uo.kind = "throw" THEN Escaped(<<update>>)
        ELSE Handled(<<update>>)

\* switch (event.type); invoice.payment_failed and customer.subscription.created
\* only log, as does an event of any other type
handleEvent(event, now, cc, ro, uo) ==
    CASE event.type = "payment_intent.succeeded" ->
            handlePaymentIntentSucceeded(event.object, now, cc, uo)
      [] event.type = "payment_intent.payment_failed" ->
            handlePaymentIntentFailed(event.object, cc, uo)
      [] event.type = "invoice.payment_succeeded" ->
            handleInvoicePaymentSucceeded(event.object, now, cc, ro, uo)
      [] event.type = "customer.subscription.updated" ->
            handleSubscriptionUpdated(event.object, now, cc, uo)
      [] event.type = "customer.subscription.deleted" ->
            handleSubscriptionDeleted(event.object, now, cc, uo)
      [] OTHER -> Handled(<<>>)

\* an event taken from the body without a check of its signature
parseEvent(signature) == "event"

\* stripe.webhooks.constructEvent(body, signature, endpointSecret): the event, or
\* an exception when the header is missing or the signature does not match
constructEvent(signature) == IF signature = "valid" THEN "event" ELSE "throw"

\* the body of the try block; text: request.text() returns or throws
WebhookTry(text, signature, event, now, cc, ro, uo) ==
    IF text = "throw" THEN Throw(<<>>)
    ELSE IF constructEvent(signature) = "throw"
    THEN Return(Json(400, [error |-> "Webhook signature verification failed"]), <<>>)
    ELSE LET h == handleEvent(event, now, cc, ro, uo)
         IN  IF h.thrown THEN [Throw(<<>>) EXCEPT !.writes = h.writes]
             ELSE [Return(Json(200, [received |-> TRUE]), <<>>) EXCEPT !.writes = h.writes]

WebhookCatch == Json(500, [error |-> "Webhook error"])

WebhookPOST(text, signature, event, now, cc, ro, uo) ==
    TryCatch(WebhookTry(text, signature, event, now, cc, ro, uo), WebhookCatch)

-----------------------------------------------------------------------------
(* donation POST *)

\* a record helper that lets the caller go on although the insert came back with
\* an error
createTransactionRecordLenient(args, now, tc, to) ==
    [ message |-> IF tc = "throw" THEN "supabaseUrl is required." ELSE NULL,
      writes |-> IF tc = "throw" THEN <<>>
                 ELSE << Insert("transactions",
                                Spread(NullTransaction,
                                       [ amount |-> args.amount,
                                         payment_status |-> "pending",
                                         stripe_payment_intent_id |->
                                             args.stripePaymentIntentId ]), to) >> ]

\* tc: createServerSupabaseClient returns or throws; to: how
\* .insert([transactionData]).select().single() ends. The result holds the insert
\* sent and the message of the exception thrown, NULL when the record was created
createTransactionRecord(args, now, tc, to) ==
    LET OrNull(v) == IF Falsy(v) THEN NULL ELSE v
        transactionData ==
            [ contact_id |-> OrNull(args.contactId),
              amount |-> args.amount,
              currency |-> toUpperCase(args.currency),
              category |-> args.fundDesignation,
              payment_method |-> args.paymentMethod,
              payment_status |-> "pending",
              transacted_at |-> now,
              notes |-> OrNull(args.notes),
              stripe_payment_intent_id |-> OrNull(args.stripePaymentIntentId),
              stripe_customer_id |-> OrNull(args.stripeCustomerId),
              is_anonymous |-> args.isAnonymous,
              is_recurring |-> args.isRecurring,
              fund_designation |-> args.fundDesignation,
              metadata |-> [ frequency |-> args.frequency,
                             source |-> "church_website",
                             type |-> IF args.isRecurring THEN "recurring_donation"
                                      ELSE "one_time_donation" ] ]
        insert == Insert("transactions", Spread(NullTransaction, transactionData), to)
    IN  IF tc = "throw" THEN [message |-> "supabaseUrl is required.", writes |-> <<>>]
        ELSE IF to.kind = "throw" THEN [message |-> "fetch failed", writes |-> <<insert>>]
        ELSE IF to.kind = "error"
        THEN [ message |-> "Failed to create transaction record: " \o to.error.message,
               writes |-> <<insert>> ]
        ELSE [message |-> NULL, writes |-> <<insert>>]

\* crypto.randomUUID(): the n-th UUID drawn
Uuid(n) == "uuid-" \o ToString(n)

\* the contact and the Stripe customer of a donor who is not anonymous and gave an
\* e-mail address. o.cc: createServerSupabaseClient; o.lo, o.found: the lookup of
\* the contact and the rows with the donor's address; o.co: the insert of a new
\* contact; o.so, o.customers: the customer calls and the customers with the
\* donor's address. end: "throw" when an exception left the block, "failed" when
\* the customer calls threw
DonationDonor(body, n, o) ==
    LET existing == IF o.lo.kind = "rows" /\ Cardinality(o.found) = 1 THEN o.found ELSE {}
        create == existing = {} /\ ~Falsy(body.donorName)
        i == IndexOfSpace(body.donorName, 1)
        newContact ==
            [ id |-> Uuid(n),
              first_name |-> IF i = 0 THEN body.donorName
                             ELSE SubSeq(body.donorName, 1, i - 1),
              last_name |-> LastName(body.donorName),
              email |-> body.donorEmail, phone |-> "", source |-> "online_donation" ]
        insert == IF create THEN << Insert("contacts", newContact, o.co) >> ELSE <<>>
        contactId == IF existing # {} THEN (CHOOSE c \in existing : TRUE).id
                     ELSE IF create /\ o.co.kind = "rows" THEN newContact.id
                     ELSE NULL
        customer ==
            [ object |-> "customer", id |-> "cus_" \o ToString(n),
              email |-> body.donorEmail, name |-> body.donorName,
              metadata |-> [ contact_id |-> IF Falsy(contactId) THEN "" ELSE contactId,
                             source |-> "church_website" ] ]
        \* an object the payment processor created and keeps
        Created(object) ==
            [op |-> "insert", table |-> "stripe", row |-> object, ok |-> TRUE]
        End(end, writes, customerId) ==
            [end |-> end, writes |-> writes, contactId |-> contactId,
             customerId |-> customerId]
    IN  IF o.cc = "throw" \/ o.lo.kind = "throw" THEN End("throw", <<>>, NULL)
        ELSE IF create /\ o.co.kind = "throw" THEN End("throw", insert, NULL)
        ELSE IF o.so = "throw" THEN End("failed", insert, NULL)
        ELSE IF o.customers # {}
        THEN End("ok", insert, (CHOOSE c \in o.customers : TRUE).id)
        ELSE End("ok", insert \o << Created(customer) >>, customer.id)

\* the body of the outer try block. parse: request.json() returns or throws; a
\* field the body does not carry is NULL (<<>> for amount and isAnonymous);
\* amounts are whole units; n numbers the objects created; o.po, o.io: the
\* creation of the price and of the intent; o.tc, o.to: see createTransactionRecord
DonationTry(parse, body, n, now, o) ==
    IF parse = "throw" THEN Throw(<<>>)
    ELSE
    LET amount == body.amount
        currency == IF body.currency = NULL THEN "usd" ELSE body.currency
        fundDesignation == IF body.fundDesignation = NULL THEN "General"
                           ELSE body.fundDesignation
        isAnonymous == IF body.isAnonymous = <<>> THEN FALSE ELSE body.isAnonymous[1]
        frequency == IF body.frequency = NULL THEN "one-time" ELSE body.frequency
        known == ~isAnonymous /\ ~Falsy(body.donorEmail)
        donor == IF known THEN DonationDonor(body, n, o)
                 ELSE [end |-> "ok", writes |-> <<>>, contactId |-> NULL,
                       customerId |-> NULL]
        reads == IF known /\ o.cc = "ok" THEN << "contacts" >> ELSE <<>>
        contact == IF Falsy(donor.contactId) THEN "" ELSE donor.contactId
        price ==
            [ object |-> "price", id |-> "price_" \o ToString(n),
              unit_amount |-> amount[1] * 100, currency |-> toLowerCase(currency),
              interval |-> IF frequency = "weekly" THEN "week" ELSE "month",
              name |-> "Recurring Donation - " \o fundDesignation ]
        setupIntent ==
            [ object |-> "setup_intent", id |-> "seti_" \o ToString(n),
              client_secret |-> "seti_" \o ToString(n) \o "_secret",
              customer |-> donor.customerId, status |-> "requires_payment_method",
              metadata |-> [ contact_id |-> contact, fund_designation |-> fundDesignation,
                             type |-> "recurring_donation_setup", frequency |-> frequency,
                             amount |-> ToString(amount[1]), price_id |-> price.id ] ]
        paymentIntent ==
            [ object |-> "payment_intent", id |-> "pi_" \o ToString(n),
              client_secret |-> "pi_" \o ToString(n) \o "_secret",
              amount |-> amount[1] * 100, currency |-> toLowerCase(currency),
              customer |-> donor.customerId, status |-> "requires_payment_method",
              receipt_email |-> IF isAnonymous THEN NULL ELSE body.donorEmail,
              metadata |-> [ contact_id |-> contact, fund_designation |-> fundDesignation,
                             type |-> "donation", frequency |-> "one-time" ] ]
        args == [ contactId |-> donor.contactId, amount |-> amount[1],
                  currency |-> currency, fundDesignation |-> fundDesignation,
                  isAnonymous |-> isAnonymous, notes |-> body.notes,
                  stripeCustomerId |-> donor.customerId, frequency |-> frequency ]
        recurring ==
            createTransactionRecord(
                Spread(args, [ paymentMethod |-> "Stripe (Recurring)",
                               stripePaymentIntentId |-> NULL, isRecurring |-> TRUE ]),
                now, o.tc, o.to)
        oneTime ==
            createTransactionRecord(
                Spread(args, [ paymentMethod |-> "Stripe",
                               stripePaymentIntentId |-> paymentIntent.id,
                               isRecurring |-> FALSE ]),
                now, o.tc, o.to)
        StripeError == "An error occurred with our connection to Stripe."
        Created(object) ==
            [op |-> "insert", table |-> "stripe", row |-> object, ok |-> TRUE]
        Answer(status, body_, writes) ==
            [Return(Json(status, body_), reads) EXCEPT !.writes = writes]
        NotRecurring(details, writes) ==
            Answer(500, [error |-> "Failed to create recurring donation",
                         details |-> details], writes)
    IN  IF amount = <<>> \/ amount[1] <= 0
        THEN Answer(400, [error |-> "Valid amount is required"], <<>>)
        ELSE IF Falsy(body.donorEmail) /\ ~isAnonymous
        THEN Answer(400, [error |-> "Email is required for non-anonymous donations"], <<>>)
        ELSE IF donor.end = "throw" THEN [Throw(reads) EXCEPT !.writes = donor.writes]
        ELSE IF donor.end = "failed"
        THEN Answer(500, [error |-> "Failed to set up customer account"], donor.writes)
        ELSE IF frequency # "one-time"
        THEN IF Falsy(donor.customerId)
             THEN Answer(400, [error |-> "Customer required for recurring donations"],
                         donor.writes)
             ELSE IF o.po = "throw" THEN NotRecurring(StripeError, donor.writes)
             ELSE IF o.io = "throw"
             THEN NotRecurring(StripeError, donor.writes \o << Created(price) >>)
             ELSE LET writes == donor.writes \o << Created(price), Created(setupIntent) >>
                                \o recurring.writes
                  IN  IF recurring.message # NULL
                      THEN NotRecurring(recurring.message, writes)
                      ELSE Answer(200, [ setupIntentId |-> setupIntent.id,
                                         clientSecret |-> setupIntent.client_secret,
                                         priceId |-> price.id, type |-> "recurring" ],
                                  writes)
        ELSE IF o.io = "throw"
        THEN Answer(500, [error |-> "Failed to create payment intent"], donor.writes)
        ELSE LET writes == donor.writes \o << Created(paymentIntent) >> \o oneTime.writes
             IN  IF oneTime.message # NULL
                 THEN Answer(500, [error |-> "Failed to create payment intent"], writes)
                 ELSE Answer(200, [ clientSecret |-> paymentIntent.client_secret,
                                    paymentIntentId |-> paymentIntent.id ], writes)

DonationPOST(parse, body, n, now, o) ==
    TryCatch(DonationTry(parse, body, n, now, o),
             Json(500, [error |-> "Internal server error"]))

-----------------------------------------------------------------------------
(* the useEvents hook *)

\* the hook file's own defaultEvents: the same literal as the route's
hookDefaultEvents == defaultEvents

\* the state of the hook at the first render of a mount; pc: where the effect
\* is; fetches: the fetches issued in this mount; outcome: how the fetch ended
useState ==
    [ events |-> hookDefaultEvents, loading |-> FALSE, error |-> NULL,
      source |-> "default", message |-> "Using default events",
      pc |-> "rendered", fetches |-> 0, outcome |-> [kind |-> "none"], mounts |-> 1 ]

\* response.ok
Ok(status) == status >= 200 /\ status <= 299

\* the state left by catch (err): the defaults and the error's message
fetchFailed(h, errorMessage) ==
    [h EXCEPT !.error = errorMessage, !.events = hookDefaultEvents,
              !.source = "default", !.message = "Using default events - Fetch failed"]

\* what the try block and its catch leave once the fetch has ended as o
fetchSettled(h, o) ==
    IF o.kind = "reject" THEN fetchFailed(h, o.message)
    ELSE IF ~Ok(o.status)
    THEN fetchFailed(h, "HTTP " \o ToString(o.status) \o ": " \o o.statusText)
    ELSE IF o.json = "throw" THEN fetchFailed(h, "Unexpected token < in JSON")
    ELSE LET data == o.body
         IN  IF "events" \in DOMAIN data
             THEN [h EXCEPT !.events = data.events,
                            !.source = IF "source" \notin DOMAIN data \/ Falsy(data.source)
                                       THEN "default" ELSE data.source,
                            !.message = IF "message" \notin DOMAIN data \/ Falsy(data.message)
                                        THEN "Events loaded" ELSE data.message,
                            !.error = NULL]
             ELSE [h EXCEPT !.events = hookDefaultEvents, !.source = "default",
                            !.message = "Using default events - No content found"]

\* a fetchEvents whose setLoading(false) is the last statement of the try block
fetchEventsNoFinally(h, o) ==
    LET after == fetchSettled(h, o)
    IN  [after EXCEPT !.loading = (after.error # NULL), !.pc = "done", !.outcome = o]

\* fetchEvents from the end of the awaited fetch on: try, catch, and
\* finally { setLoading(false) }
fetchEvents(h, o) ==
    [fetchSettled(h, o) EXCEPT !.loading = FALSE, !.pc = "done", !.outcome = o]

-----------------------------------------------------------------------------
(* The rows the tables can hold *)

Cyc(s, i) == s[((i - 1) % Len(s)) + 1]

EventRow(i) ==
    [ id |-> "evt-" \o ToString(i),
      name |-> Cyc(<<"Sunday Service", "Youth Camp", "Bible Study",
                     "Community Serve Day", "Leadership Conference",
                     "Church Picnic">>, i),
      event_date |-> 2026110100 + ((i * 5) % 17),
      location |-> Cyc(<<NULL, "", "Main Hall">>, i),
      description |-> Cyc(<<NULL, "", "A night for teens", "Bring a friend">>, i),
      capacity |-> 50 * i ]

ImageRow(j) ==
    [ id |-> "img-" \o ToString(j),
      event_id |-> "evt-" \o Cyc(<<"1", "1", "2">>, j),
      sort_order |-> Cyc(<<2, 1, 1, 1>>, j),
      url |-> "https://cdn.example/img-" \o ToString(j) \o ".jpg" ]

SettingsRow(i) ==
    [ id |-> "ts-" \o ToString(i), name |-> "Church " \o ToString(i),
      time_zone |-> "America/Chicago", primary_color |-> "#000000",
      secondary_color |-> "#FFFFFF", description |-> "A church",
      created_at |-> 2025010100 + i, updated_at |-> 2025060100 + i ]

PageRow(i) ==
    [ id |-> "page-" \o ToString(i),
      slug |-> Cyc(<<"about", "giving", "giving", "giving">>, i),
      title |-> "Page " \o ToString(i),
      published_at |-> Cyc(<< <<2025010100>>, <<>>, <<2025020100>>, <<2025030100>> >>, i) ]

SectionRow(i) ==
    [ id |-> "sec-" \o ToString(i),
      page_id |-> Cyc(<<"page-3", "page-3", "page-3", "page-3", "page-1">>, i),
      type |-> Cyc(<<"impact", "hero", "giving_methods", "hero", "faq">>, i),
      order |-> (i * 3) % 7,
      props |-> Cyc(<< <<>>,
                       <<[heading |-> "Give with joy"]>>,
                       <<[section_title |-> "How to give", layout |-> "grid"]>>,
                       <<[heading |-> "Second hero", cta_primary |-> "Give now"]>>,
                       <<[question |-> "Is my gift tax-deductible?"]>> >>, i) ]

FundRow(i) ==
    [ id |-> "fund-" \o ToString(i),
      name |-> Cyc(<<"Old Fund", "Missions Fund", "Youth Fund">>, i),
      description |-> Cyc(<<"Closed", NULL, "Help the youth">>, i),
      is_active |-> Cyc(<<FALSE, TRUE, TRUE>>, i),
      order |-> (i * 2) % 5 ]

\* a table holding the first k rows of its kind
EventsTable(k) == { EventRow(i) : i \in 1..k }
ImagesTable(k) == { ImageRow(i) : i \in 1..k }
SettingsTable(k) == { SettingsRow(i) : i \in 1..k }
PagesTable(k) == { PageRow(i) : i \in 1..k }
SectionsTable(k) == { SectionRow(i) : i \in 1..k }
FundsTable(k) == { FundRow(i) : i \in 1..k }

-----------------------------------------------------------------------------
(* The state machine *)

\* the tables hold the first k rows of their kind; the tables of one resolver
\* vary at a time, the others hold a fixed content
\* no form has been submitted yet
NoForms ==
    /\ newsletter_subscribers = {}
    /\ website_messages = {}
    /\ contact_submissions = {}
    /\ prayer_requests = {}

\* no donation has been made yet
NoLedger ==
    /\ transactions = {}
    /\ recurring_donations = {}
    /\ contacts = {}
    /\ stripe = {}

Init ==
    /\ bundled = [events |-> defaultEvents, giving |-> defaultGivingPageContent]
    /\ call = [kind |-> "none"]
    /\ prev = [kind |-> "none"]
    /\ hook = useState
    /\ served = 0
    /\ NoForms
    /\ NoLedger
    /\ \/ /\ \E k \in {0, 1, 2, 3, NumEvents} : events = EventsTable(k)
          /\ \E k \in {0, NumImages} : event_images = ImagesTable(k)
          /\ tenant_settings = SettingsTable(1)
          /\ pages = PagesTable(3)
          /\ page_sections = SectionsTable(1)
          /\ payment_categories = FundsTable(1)
       \/ /\ events = EventsTable(2)
          /\ \/ /\ \E k \in 0..NumImages : event_images = ImagesTable(k)
                /\ tenant_settings = SettingsTable(1)
             \/ /\ event_images = ImagesTable(1)
                /\ \E k \in 0..NumSettings : tenant_settings = SettingsTable(k)
          /\ pages = PagesTable(3)
          /\ page_sections = SectionsTable(1)
          /\ payment_categories = FundsTable(1)
       \/ /\ events = EventsTable(2)
          /\ event_images = ImagesTable(1)
          /\ tenant_settings = SettingsTable(1)
          /\ \/ /\ \E k \in 0..NumPages : pages = PagesTable(k)
                /\ page_sections = SectionsTable(1)
                /\ payment_categories = FundsTable(1)
             \/ /\ pages = PagesTable(3)
                /\ \E k \in 0..NumSections : page_sections = SectionsTable(k)
                /\ payment_categories = FundsTable(NumFunds)
             \/ /\ pages = PagesTable(3)
                /\ page_sections = SectionsTable(2)
                /\ \E k \in 0..NumFunds : payment_categories = FundsTable(k)

NotMade == [kind |-> "none", error |-> NoError]

Todays == {2026110100, 2026110106}

Thrown == {"Invalid URL", "Unknown error"}

\* the writes of a kind that the store applied to a table
Applied(op, name, writes) ==
    { writes[k] : k \in { j \in DOMAIN writes : /\ writes[j].op = op
                                                 /\ writes[j].table = name
                                                 /\ writes[j].ok } }

\* a table whose updates reach every row, whatever .eq() names
WrittenUnfiltered(table, name, writes) ==
    LET inserted == table \cup { w.row : w \in Applied("insert", name, writes) }
        updates == Applied("update", name, writes)
    IN  IF updates = {} THEN inserted
        ELSE LET u == CHOOSE w \in updates : TRUE
             IN  { Spread(r, u.set) : r \in inserted }

\* a table after the inserts and the updates sent to it; a handler sends at most
\* one update to a table
Written(table, name, writes) ==
    LET inserted == table \cup { w.row : w \in Applied("insert", name, writes) }
        updates == Applied("update", name, writes)
    IN  IF updates = {} THEN inserted
        ELSE LET u == CHOOSE w \in updates : TRUE
             IN  { IF r[u.field] = u.value THEN Spread(r, u.set) ELSE r : r \in inserted }

\* what a handler's run leaves behind: the rows it wrote and the module-level
\* objects as they are after it
Effects(r) ==
    /\ bundled' = r.bundled
    /\ events' = Written(events, "events", r.writes)
    /\ event_images' = Written(event_images, "event_images", r.writes)
    /\ tenant_settings' = Written(tenant_settings, "tenant_settings", r.writes)
    /\ pages' = Written(pages, "pages", r.writes)
    /\ page_sections' = Written(page_sections, "page_sections", r.writes)
    /\ payment_categories' = Written(payment_categories, "payment_categories", r.writes)
    /\ newsletter_subscribers' =
          Written(newsletter_subscribers, "newsletter_subscribers", r.writes)
    /\ website_messages' = Written(website_messages, "website_messages", r.writes)
    /\ contact_submissions' = Written(contact_submissions, "contact_submissions", r.writes)
    /\ prayer_requests' = Written(prayer_requests, "prayer_requests", r.writes)
    /\ transactions' = Written(transactions, "transactions", r.writes)
    /\ recurring_donations' = Written(recurring_donations, "recurring_donations", r.writes)
    /\ contacts' = Written(contacts, "contacts", r.writes)
    /\ stripe' = Written(stripe, "stripe", r.writes)

\* one execution of events GET; an outcome is drawn for a call only when the
\* handler makes it
EventsResolve ==
    /\ \E env \in [url : BOOLEAN, anon : BOOLEAN], today \in Todays :
       \E co \in IF env.url /\ env.anon THEN {"ok", "throw"} ELSE {"none"} :
       \E po \in IF co = "ok" THEN Outcomes ELSE {NotMade} :
       \E rows \in IF po.kind = "rows" THEN EventsQuery(events, today) ELSE { <<>> } :
       \E io \in IF Len(rows) > 0 THEN Outcomes ELSE {NotMade} :
       \E images \in IF io.kind = "rows" THEN ImagesQuery(event_images, Ids(rows))
                     ELSE { <<>> } :
           LET r == EventsGET(env, co, po, rows, io, images)
           IN  /\ call' = [kind |-> "events", env |-> env, today |-> today, co |-> co,
                           po |-> po, rows |-> rows, io |-> io, images |-> images,
                           completion |-> r.completion, caught |-> r.caught,
                           resp |-> r.resp,
                           reads |-> r.reads, writes |-> r.writes]
               /\ Effects(r)

\* one execution of tenant-settings GET
TenantResolve ==
    /\ \E env \in [url : BOOLEAN, anon : BOOLEAN, service : BOOLEAN], now \in Todays :
       \E cc \in IF env.url /\ env.anon THEN {"ok", "throw"} ELSE {"none"} :
       \E po \in IF cc = "ok" THEN Outcomes ELSE {NotMade} :
       \E rows \in IF po.kind = "rows" THEN TenantQuery(tenant_settings) ELSE { <<>> } :
       \E thrown \in IF cc = "throw" \/ po.kind = "throw" THEN Thrown ELSE {""} :
           LET r == TenantGET(env, cc, po, rows, now, thrown)
           IN  /\ call' = [kind |-> "tenant", env |-> env, now |-> now, co |-> cc,
                           key |-> TenantKey(env), po |-> po, rows |-> rows,
                           completion |-> r.completion, caught |-> r.caught,
                           resp |-> r.resp,
                           reads |-> r.reads, writes |-> r.writes]
               /\ Effects(r)

\* one execution of giving-page GET
GivingResolve ==
    /\ \E cc \in {"ok", "throw"} :
       \E po \in IF cc = "ok" THEN Outcomes ELSE {NotMade} :
       LET pageRows == IF po.kind = "rows" THEN PagesQuery(pages) ELSE {}
           found == Cardinality(pageRows) = 1
       IN
       \E so \in IF found THEN Outcomes ELSE {NotMade} :
       \E sections \in IF so.kind = "rows"
                       THEN SectionsQuery(page_sections, (CHOOSE p \in pageRows : TRUE).id)
                       ELSE { <<>> } :
       \E fo \in IF so.kind = "rows" THEN Outcomes ELSE {NotMade} :
       \E funds \in IF fo.kind = "rows" THEN FundsQuery(payment_categories) ELSE { <<>> } :
           LET r == GivingGET(cc, po, pageRows, so, sections, fo, funds)
           IN  /\ call' = [kind |-> "giving", co |-> cc, po |-> po, pageRows |-> pageRows,
                           so |-> so, sections |-> sections, fo |-> fo, funds |-> funds,
                           completion |-> r.completion, caught |-> r.caught,
                           resp |-> r.resp,
                           reads |-> r.reads, writes |-> r.writes]
               /\ Effects(r)

\* one execution of tenant-settings POST; its body is never read
TenantPostResolve ==
    /\ \E settings \in {SettingsRow(i) : i \in 1..NumSettings + 1} :
           LET r == TenantPOST(settings)
           IN  /\ call' = [kind |-> "tenant_post", settings |-> settings,
                           completion |-> r.completion, caught |-> r.caught,
                           resp |-> r.resp,
                           reads |-> r.reads, writes |-> r.writes]
               /\ Effects(r)

\* a request is served while the bound on requests allows it
Serve ==
    /\ served < MaxRequests
    /\ served' = served + 1
    /\ prev' = prev
    /\ UNCHANGED hook

EventsRequest == Serve /\ EventsResolve

TenantRequest == Serve /\ TenantResolve

GivingRequest == Serve /\ GivingResolve

TenantPostRequest == Serve /\ TenantPostResolve

Next == EventsRequest \/ TenantRequest \/ GivingRequest \/ TenantPostRequest

Spec == Init /\ [][Next]_vars

-----------------------------------------------------------------------------
(* What the claims speak of *)

Resolved == call.kind \in {"events", "tenant", "giving"}

Body == call.resp.body

ContentFields == {"hero", "giving_methods", "fund_designations", "impact"}

\* the response carries the content of its kind
HasPayload ==
    CASE call.kind = "events" -> "events" \in DOMAIN Body
      [] call.kind = "tenant" -> "data" \in DOMAIN Body
      [] call.kind = "giving" -> ContentFields \subseteq DOMAIN Body

Payload ==
    CASE call.kind = "events" -> Body.events
      [] call.kind = "tenant" -> Body.data
      [] call.kind = "giving" -> [f \in ContentFields |-> Body[f]]

DefaultPayload ==
    CASE call.kind = "events" -> defaultEvents
      [] call.kind = "tenant" -> defaultSettings(call.now)
      [] call.kind = "giving" -> defaultGivingPageContent

HasSource(tag) == "source" \in DOMAIN Body /\ Body.source = tag

\* the process lacks the store's URL or its key (events and tenant settings
\* test for both; the giving page leaves it to the client's creation)
CredentialsMissing ==
    call.kind \in {"events", "tenant"} /\ (~call.env.url \/ ~call.env.anon)

\* the primary read came back with no row
PrimaryEmpty ==
    /\ call.po.kind = "rows"
    /\ IF call.kind = "giving" THEN call.pageRows = {} ELSE Len(call.rows) = 0

\* the primary read came back with the rows the handler asks for
PrimaryRows ==
    /\ call.po.kind = "rows"
    /\ IF call.kind = "giving" THEN Cardinality(call.pageRows) = 1
       ELSE Len(call.rows) >= 1

\* the store yielded nothing the handler can use
NothingUsable == ~PrimaryRows

RowIds(rows) == [k \in 1..Len(rows) |-> rows[k].id]

-----------------------------------------------------------------------------
(* C1 - C10 *)

\* C1: whatever the store does (credentials missing, client creation failing,
\* a query error, no row, rows, a thrown exception), every resolver ends by
\* returning a response; no exception leaves the handler.
C1_Totality ==
    Resolved => call.completion = "return" /\ call.resp.status \in {200, 500}

\* C1 witness: an exception was thrown inside the try block (the image lookup
\* of events GET threw) and the handler still returned a response.
C1_Witness ==
    /\ call.kind = "events"
    /\ call.io.kind = "throw"
    /\ call.completion = "return"

\* C2 (as claimed): every response of a resolver carries its content, and when
\* the store yielded nothing usable that content is the bundled default.
C2_PayloadAlwaysPresent ==
    Resolved =>
        /\ HasPayload
        /\ NothingUsable => Payload = DefaultPayload

\* C3 (as claimed): when the primary read ends empty, fails for missing
\* credentials or an unreachable store, or is denied by policy, the content is
\* exactly the bundled default and the tag is "default".
C3_DefaultOnFailure ==
    (Resolved /\ (CredentialsMissing \/ PrimaryEmpty \/ call.po.kind = "error")) =>
        /\ HasPayload
        /\ Payload = DefaultPayload
        /\ HasSource("default")

\* C4 (as claimed): when the catch-all clause of a resolver produces the
\* response, the tag is "error_fallback" and the content is the bundled default.
C4_ErrorFallbackTag ==
    (Resolved /\ call.caught) =>
        /\ HasSource("error_fallback")
        /\ HasPayload
        /\ Payload = DefaultPayload

\* C5 (as claimed): when the primary read returns at least one row, the tag is
\* "database" and the content is the transform of those rows (events: one
\* event per row, in order; tenant settings: the first row), not the default.
C5_DatabaseOnRows ==
    (Resolved /\ PrimaryRows) =>
        /\ HasSource("database")
        /\ HasPayload
        /\ Payload # DefaultPayload
        /\ call.kind = "events" => RowIds(Body.events) = RowIds(call.rows)
        /\ call.kind = "tenant" => Body.data = call.rows[1]

\* C6: events GET with the credentials missing, the client not created or the
\* events query answering an error returns exactly the four bundled events,
\* default-1 .. default-4 in this order, tagged "default".
C6_EventsUnavailable ==
    (call.kind = "events"
        /\ (CredentialsMissing \/ call.co = "throw" \/ call.po.kind = "error")) =>
        /\ call.completion = "return"
        /\ call.resp.status = 200
        /\ Body.events = defaultEvents
        /\ RowIds(Body.events) = <<"default-1", "default-2", "default-3", "default-4">>
        /\ Body.source = "default"

\* C6 witness: the events query answered an error and the four defaults came back.
C6_Witness ==
    /\ call.kind = "events"
    /\ call.po.kind = "error"
    /\ Len(Body.events) = 4

\* C7: events GET, the events query returned rows and the image lookup returned
\* an error or no row: the response is tagged "database", holds every primary
\* row in order, each with primary_image null; it is not the default payload.
C7_ImageLookupFailure ==
    (call.kind = "events" /\ PrimaryRows
        /\ (call.io.kind = "error" \/ (call.io.kind = "rows" /\ call.images = <<>>))) =>
        /\ call.completion = "return"
        /\ Body.source = "database"
        /\ RowIds(Body.events) = RowIds(call.rows)
        /\ \A k \in 1..Len(Body.events) : Body.events[k].primary_image = <<>>
        /\ Body.events # defaultEvents

\* C7 witness: rows came back, the image lookup answered an error although the
\* store holds an image of one of the events.
C7_Witness ==
    /\ call.kind = "events"
    /\ PrimaryRows
    /\ call.io.kind = "error"
    /\ \E i \in event_images : i.event_id \in Ids(call.rows)
    /\ Body.source = "database"

\* the images the store holds for an event
ImagesOf(id) == { i \in event_images : i.event_id = id }

\* C8: events GET, both reads returned and n >= 1 events came back: the
\* response holds exactly n events, n <= 10, in the store's order (ascending
\* event_date, none before today), each with primary_image an image of that
\* event of lowest sort_order, or null when the event has none; the message
\* reports n.
C8_EventsSuccess ==
    (call.kind = "events" /\ PrimaryRows /\ call.io.kind = "rows") =>
        LET n == Len(call.rows)
            out == Body.events
        IN  /\ Len(out) = n
            /\ n <= EventsLimit
            /\ RowIds(out) = RowIds(call.rows)
            /\ \A k \in 1..n :
                 /\ \E e \in events : e.id = out[k].id /\ e.event_date = out[k].event_date
                 /\ out[k].event_date >= call.today
                 /\ k < n => out[k].event_date <= out[k + 1].event_date
            /\ Cardinality({ e \in events : e.event_date >= call.today }) >= n
            /\ Cardinality({ e \in events : e.event_date >= call.today }) > n
                   => n = EventsLimit
            /\ \A k \in 1..n :
                 IF ImagesOf(out[k].id) = {} THEN out[k].primary_image = <<>>
                 ELSE /\ Len(out[k].primary_image) = 1
                      /\ out[k].primary_image[1] \in ImagesOf(out[k].id)
                      /\ \A i \in ImagesOf(out[k].id) :
                             out[k].primary_image[1].sort_order <= i.sort_order
            /\ Body.message = "Loaded " \o ToString(n) \o " upcoming events from database"
            /\ Body.source = "database"

\* C8 witness: the query's limit cut the upcoming events to ten, one event has
\* two images and got the one of lower sort_order, another event has none.
C8_Witness ==
    /\ call.kind = "events"
    /\ call.io.kind = "rows"
    /\ Len(Body.events) = EventsLimit
    /\ Cardinality({ e \in events : e.event_date >= call.today }) > EventsLimit
    /\ \E k \in 1..Len(Body.events) :
         /\ Cardinality(ImagesOf(Body.events[k].id)) >= 2
         /\ Body.events[k].primary_image # <<>>
    /\ \E k \in 1..Len(Body.events) : Body.events[k].primary_image = <<>>

\* C9 (as claimed): every response of every resolver carries a source field
\* that is "database", "default" or "error_fallback", and a message field.
C9_Envelope ==
    Resolved =>
        /\ "source" \in DOMAIN Body
        /\ Body.source \in {"database", "default", "error_fallback"}
        /\ "message" \in DOMAIN Body

\* C10 (as claimed): a response whose every content field equals the bundled
\* default is not tagged "database".
C10_TruthfulProvenance ==
    (Resolved /\ HasPayload /\ Payload = DefaultPayload) => ~HasSource("database")

-----------------------------------------------------------------------------
(* Two resolutions of one request, one after the other *)

\* a small family of stores: events of which one starts between the two clock
\* readings, two images of one event with the same sort_order, more than one
\* settings row
InitTwice ==
    /\ bundled = [events |-> defaultEvents, giving |-> defaultGivingPageContent]
    /\ call = [kind |-> "none"]
    /\ prev = [kind |-> "none"]
    /\ hook = useState
    /\ served = 0
    /\ NoForms
    /\ NoLedger
    /\ \E k \in {2, 3} : events = EventsTable(k)
    /\ event_images = ImagesTable(NumImages)
    /\ \E k \in {0, NumSettings} : tenant_settings = SettingsTable(k)
    /\ pages = PagesTable(3)
    /\ page_sections = SectionsTable(NumSections)
    /\ payment_categories = FundsTable(NumFunds)

\* the request is made again once: the resolution before the last one is kept
Again(kind) ==
    /\ prev.kind = "none"
    /\ call.kind \in {"none", kind}
    /\ prev' = call
    /\ served' = served + 1
    /\ UNCHANGED hook

EventsTwice == Again("events") /\ EventsResolve

TenantTwice == Again("tenant") /\ TenantResolve

GivingTwice == Again("giving") /\ GivingResolve

NextTwice == EventsTwice \/ TenantTwice \/ GivingTwice

SpecTwice == InitTwice /\ [][NextTwice]_vars

Twice == prev.kind # "none"

\* the data of a response, without the time-sensitive fields of the default
\* tenant settings
DataOf(c) ==
    LET body == c.resp.body
    IN  CASE c.kind = "events" -> body.events
          [] c.kind = "tenant" ->
                IF "data" \notin DOMAIN body THEN <<>>
                ELSE IF body.source = "default"
                THEN << [body.data EXCEPT !.created_at = 0, !.updated_at = 0] >>
                ELSE << body.data >>
          [] c.kind = "giving" -> [f \in ContentFields |-> body[f]]

\* both resolutions ran in the same configuration and every call they made to
\* the store ended the same way (rows, the same error, or an exception)
SameOutcomes ==
    /\ prev.co = call.co
    /\ prev.po = call.po
    /\ call.kind \in {"events", "tenant"} => prev.env = call.env
    /\ call.kind = "events" => prev.io = call.io
    /\ call.kind = "giving" => prev.so = call.so /\ prev.fo = call.fo

\* both resolutions were handed the same rows in the same order
SameRows ==
    CASE call.kind = "events" -> prev.rows = call.rows /\ prev.images = call.images
      [] call.kind = "tenant" -> prev.rows = call.rows
      [] call.kind = "giving" -> /\ prev.pageRows = call.pageRows
                                 /\ prev.sections = call.sections
                                 /\ prev.funds = call.funds

FromRows(c) == c.kind = "events" /\ c.resp.body.source = "database"

-----------------------------------------------------------------------------
(* Frame: what the handlers leave alone *)

\* C12: no step of events GET, giving-page GET, tenant-settings GET or
\* tenant-settings POST changes a table of the store or sends an insert, update
\* or delete; tenant-settings GET stores no row when it finds none, and
\* tenant-settings POST answers 403 without a read or a write.
C12_NoStoreMutation ==
    [][ /\ store' = store
        /\ call'.writes = <<>>
        /\ call'.kind = "tenant_post" =>
              /\ call'.resp.status = 403
              /\ call'.reads = <<>> ]_vars

\* tenant-settings GET found no row, answered the defaults, and the table is
\* still empty
C12_Witness ==
    /\ call.kind = "tenant"
    /\ call.po.kind = "rows"
    /\ call.rows = <<>>
    /\ call.reads = <<"tenant_settings">>
    /\ HasSource("default")
    /\ tenant_settings = {}

\* the default objects as the module defines them when it is loaded
LoadedDefaults == [events |-> defaultEvents, giving |-> defaultGivingPageContent]

Overlaid(c) ==
    /\ c.kind = "giving"
    /\ c.resp.body.source = "database"
    /\ c.resp.body.hero # defaultGivingPageContent.hero
    /\ c.resp.body.giving_methods # defaultGivingPageContent.giving_methods
    /\ c.resp.body.fund_designations # defaultGivingPageContent.fund_designations

FellBack(c) ==
    /\ c.kind \in {"events", "giving"}
    /\ c.resp.body.source \in {"default", "error_fallback"}

\* C13: the bundled default payloads are never mutated: after any resolutions,
\* among them giving-page resolutions that overlay section props or replace
\* fund_designations, the module-level default objects equal the ones defined at
\* module load, and a resolution that falls back returns exactly those.
C13_DefaultsNeverMutated ==
    /\ bundled = LoadedDefaults
    /\ FellBack(call) =>
          \/ call.kind = "events" /\ call.resp.body.events = defaultEvents
          \/ /\ call.kind = "giving"
             /\ [f \in ContentFields |-> call.resp.body[f]] = defaultGivingPageContent

\* a giving-page resolution overlaid section props and replaced the funds, and
\* the next one fell back
C13_Witness ==
    /\ Overlaid(prev)
    /\ FellBack(call)

-----------------------------------------------------------------------------
(* giving-page GET: the related lookups *)

PageFound ==
    /\ call.kind = "giving"
    /\ call.po.kind = "rows"
    /\ Cardinality(call.pageRows) = 1

\* C14: once the primary page row is found, an error of the page_sections or of
\* the payment_categories lookup does not abort the resolution: the response is
\* tagged "database" and the sub-fields the failed lookup feeds hold their
\* defaults.
C14_SecondaryLookupsDegrade ==
    (PageFound /\ (call.so.kind = "error" \/ call.fo.kind = "error")) =>
        /\ HasSource("database")
        /\ call.so.kind = "error" =>
              \A f \in SectionTypes : Body[f] = defaultGivingPageContent[f]
        /\ call.fo.kind = "error" =>
              Body.fund_designations = defaultGivingPageContent.fund_designations

-----------------------------------------------------------------------------
(* The reads of a resolution *)

\* the tables a handler reads, in the order in which it reads them
ReadOrder ==
    CASE call.kind = "events" -> <<"events", "event_images">>
      [] call.kind = "tenant" -> <<"tenant_settings">>
      [] call.kind = "giving" -> <<"pages", "page_sections", "payment_categories">>

IsPrefix(s, t) == Len(s) <= Len(t) /\ s = SubSeq(t, 1, Len(s))

\* the calls to the store that had ended, with rows, an error or an exception,
\* when the response was produced
Completed ==
    LET done(o) == IF o.kind = "none" THEN 0 ELSE 1
    IN  CASE call.kind = "events" -> done(call.po) + done(call.io)
          [] call.kind = "tenant" -> done(call.po)
          [] call.kind = "giving" -> done(call.po) + done(call.so) + done(call.fo)

\* C15 (as stated): a resolution issues at most two remote reads, each at most
\* once, and the response is produced only after every read it issued has
\* completed.
C15_AtMostTwoReads ==
    Resolved =>
        /\ Len(call.reads) <= 2
        /\ \A i, j \in DOMAIN call.reads : call.reads[i] = call.reads[j] => i = j
        /\ Completed = Len(call.reads)

\* C15 (amended): a resolution issues its reads one after the other in a fixed
\* order, each at most once: events GET at most two (events, event_images),
\* tenant-settings GET at most one, giving-page GET at most three (pages,
\* page_sections, payment_categories); the response is produced only after
\* every read it issued has completed.
C15_ReadsOnceInOrder ==
    Resolved =>
        /\ IsPrefix(call.reads, ReadOrder)
        /\ call.kind = "events" => Len(call.reads) <= 2
        /\ call.kind = "tenant" => Len(call.reads) <= 1
        /\ Completed = Len(call.reads)

\* giving-page GET read its three tables and answered from them
C15_Witness ==
    /\ call.kind = "giving"
    /\ call.reads = <<"pages", "page_sections", "payment_categories">>
    /\ HasSource("database")

-----------------------------------------------------------------------------
(* A component that uses the useEvents hook, and the events route behind it *)

InitHook ==
    /\ bundled = [events |-> defaultEvents, giving |-> defaultGivingPageContent]
    /\ call = [kind |-> "none"]
    /\ prev = [kind |-> "none"]
    /\ hook = useState
    /\ served = 0
    /\ NoForms
    /\ NoLedger
    /\ \E k \in {0, 2, 3} : events = EventsTable(k)
    /\ \E k \in {0, NumImages} : event_images = ImagesTable(k)
    /\ tenant_settings = SettingsTable(1)
    /\ pages = PagesTable(3)
    /\ page_sections = SectionsTable(1)
    /\ payment_categories = FundsTable(1)

\* the ways the awaited fetch ends without the route's answer: the request is
\* rejected, a proxy or the framework answers an error page, the body is not
\* JSON, or it is JSON without an events field
NoAnswer(kind, message, status, statusText, json) ==
    [kind |-> kind, message |-> message, status |-> status,
     statusText |-> statusText, json |-> json, body |-> [error |-> statusText]]

FetchFailures ==
    { NoAnswer("reject", "Failed to fetch", 0, "", "none"),
      NoAnswer("response", "", 500, "Internal Server Error", "none"),
      NoAnswer("response", "", 404, "Not Found", "none"),
      NoAnswer("response", "", 200, "OK", "throw"),
      NoAnswer("response", "", 200, "OK", "ok") }

\* useEffect(() => { fetchEvents() }, []): runs once, after the first render of
\* a mount; fetchEvents sets loading and awaits the fetch
HookEffect ==
    /\ hook.pc = "rendered"
    /\ hook' = [hook EXCEPT !.loading = TRUE, !.fetches = @ + 1, !.pc = "fetching"]
    /\ UNCHANGED <<store, bundled, call, prev, served>>

\* the events route handles the request of the pending fetch
HookRoute ==
    /\ hook.pc = "fetching"
    /\ call.kind = "none"
    /\ EventsResolve
    /\ UNCHANGED <<prev, hook, served>>

\* the route's answer reaches the hook
HookAnswered ==
    /\ hook.pc = "fetching"
    /\ call.kind = "events"
    /\ hook' = fetchEvents(hook, [kind |-> "response", message |-> "",
                                  status |-> call.resp.status, statusText |-> "OK",
                                  json |-> "ok", body |-> call.resp.body])
    /\ UNCHANGED <<store, bundled, call, prev, served>>

\* the fetch ends without the route's answer
HookUnanswered ==
    /\ hook.pc = "fetching"
    /\ \E o \in FetchFailures : hook' = fetchEvents(hook, o)
    /\ UNCHANGED <<store, bundled, call, prev, served>>

\* the component is unmounted and mounted again: a new hook instance
HookRemount ==
    /\ hook.mounts < MaxMounts
    /\ hook' = [useState EXCEPT !.mounts = hook.mounts + 1]
    /\ call' = [kind |-> "none"]
    /\ UNCHANGED <<store, bundled, prev, served>>

NextHook == HookEffect \/ HookRoute \/ HookAnswered \/ HookUnanswered \/ HookRemount

SpecHook == InitHook /\ [][NextHook]_vars

\* the fetch ended without a usable body: it threw, was answered non-OK, or the
\* body had no events field
HookThrew ==
    /\ hook.pc = "done"
    /\ \/ hook.outcome.kind = "reject"
       \/ ~Ok(hook.outcome.status)
       \/ hook.outcome.json = "throw"

HookNoEvents ==
    /\ hook.pc = "done"
    /\ ~HookThrew
    /\ "events" \notin DOMAIN hook.outcome.body

\* C16: useEvents starts with the bundled default events, source "default" and
\* loading false; it performs exactly one fetch per mount; once the fetch has
\* ended, in any way, loading is false; if the fetch threw, was answered non-OK or
\* the body had no events field, the events are the bundled defaults with source
\* "default"; error is non-null only if the fetch threw or was answered non-OK;
\* the events are never null.
C16_UseEvents ==
    /\ hook.pc = "rendered" =>
          /\ hook.events = hookDefaultEvents
          /\ hook.source = "default"
          /\ hook.loading = FALSE
          /\ hook.fetches = 0
    /\ hook.pc # "rendered" => hook.fetches = 1
    /\ hook.pc = "done" => hook.loading = FALSE
    /\ (HookThrew \/ HookNoEvents) =>
          hook.events = hookDefaultEvents /\ hook.source = "default"
    /\ hook.error # NULL => HookThrew
    /\ DOMAIN hook.events = 1..Len(hook.events)

\* in the second mount the fetch was rejected: defaults, an error, not loading
C16_Witness ==
    /\ hook.mounts = MaxMounts
    /\ hook.pc = "done"
    /\ hook.outcome.kind = "reject"
    /\ hook.error = "Failed to fetch"
    /\ hook.events = hookDefaultEvents
    /\ ~hook.loading

-----------------------------------------------------------------------------
(* A submission of the contact form *)

Person(name, phone, category) == [name |-> name, phone |-> phone, category |-> category]

\* the JSON objects a form submission carries: complete ones, and ones with
\* required fields missing (NULL) or empty
CompleteBodies ==
    { [ name |-> who.name, email |-> "ada@example.org", phone |-> who.phone,
        subject |-> "Hello", category |-> who.category, message |-> "Please call",
        newsletter |-> newsletter, prayer |-> prayer ] :
      who \in {Person("Ada Lovelace", "555-0100", NULL),
               Person("Ada Lovelace", "", "Prayer Request"),
               Person("Cher", NULL, "General Inquiry")},
      newsletter \in OptInValues,
      prayer \in {"true", "undefined", "'on'"} }

IncompleteBodies ==
    { b \in [ name : {NULL, "", "Ada Lovelace"}, email : {"", "ada@example.org"},
              phone : {NULL}, subject : {NULL, "Hello"}, category : {"Prayer Request"},
              message : {"", "Please call"}, newsletter : {"true", "false"},
              prayer : {"true", "undefined"} ] :
      \E f \in {"name", "email", "subject", "message"} : Falsy(b[f]) }

EarlierMessage ==
    websiteMessagePayload([ name |-> "Grace Hopper", email |-> "grace@example.org",
                            phone |-> NULL, subject |-> "Hi", category |-> NULL,
                            message |-> "Thanks", newsletter |-> "false",
                            prayer |-> "undefined" ], Uuid(0), 2026103100)

EarlierSubscriber ==
    Subscriber(newsletterPayload([name |-> "Grace Hopper", email |-> "grace@example.org"],
                                 2026103100))

InitContact ==
    /\ bundled = [events |-> defaultEvents, giving |-> defaultGivingPageContent]
    /\ call = [kind |-> "none"]
    /\ prev = [kind |-> "none"]
    /\ hook = useState
    /\ served = 0
    /\ events = EventsTable(2)
    /\ event_images = ImagesTable(1)
    /\ tenant_settings = SettingsTable(1)
    /\ pages = PagesTable(3)
    /\ page_sections = SectionsTable(1)
    /\ payment_categories = FundsTable(1)
    /\ \/ newsletter_subscribers = {} /\ website_messages = {}
       \/ /\ newsletter_subscribers = {EarlierSubscriber}
          /\ website_messages = {EarlierMessage}
    /\ contact_submissions = {}
    /\ prayer_requests = {}
    /\ NoLedger

\* one execution of contact POST; an outcome is drawn for an insert only when the
\* handler sends it
ContactResolve ==
    /\ \E parse \in {"object", "null", "malformed"}, timestamp \in Todays :
       \E body \in IF parse = "object" THEN CompleteBodies \cup IncompleteBodies
                   ELSE { [name |-> NULL, email |-> NULL, phone |-> NULL,
                           subject |-> NULL, category |-> NULL, message |-> NULL,
                           newsletter |-> "undefined", prayer |-> "undefined"] } :
       LET valid == parse = "object" /\ ~MissingRequired(body)
           ids == [submission |-> Uuid(2 * served + 1), prayer |-> Uuid(2 * served + 2)]
       IN
       \E no \in IF valid /\ OptIn(body.newsletter) THEN InsertOutcomes ELSE {NotMade} :
       \E wo \in IF valid THEN InsertOutcomes ELSE {NotMade} :
       \E fo \in IF wo.kind = "error" THEN InsertOutcomes ELSE {NotMade} :
       \E pro \in IF /\ valid /\ isPrayerRequest(body)
                     /\ (wo.kind \in {"rows", "empty"} \/ fo.kind \in {"rows", "empty"})
                  THEN InsertOutcomes ELSE {NotMade} :
           LET r == ContactPOST(parse, body, ids, timestamp, no, wo, fo, pro)
           IN  /\ call' = [kind |-> "contact", parse |-> parse, body |-> body,
                           ids |-> ids, timestamp |-> timestamp,
                           no |-> no, wo |-> wo, fo |-> fo, pro |-> pro,
                           completion |-> r.completion, caught |-> r.caught,
                           resp |-> r.resp,
                           reads |-> r.reads, writes |-> r.writes]
               /\ Effects(r)

\* a run is one submission of the form
ContactRequest ==
    /\ call.kind = "none"
    /\ served' = served + 1
    /\ UNCHANGED <<prev, hook>>
    /\ ContactResolve

NextContact == ContactRequest

SpecContact == InitContact /\ [][NextContact]_vars

Posted == call.kind = "contact"

\* the request carried a JSON object in which every required field is filled in
Complete(c) ==
    /\ c.parse = "object"
    /\ \A f \in {"name", "email", "subject", "message"} : ~Falsy(c.body[f])

Succeeded ==
    /\ call.resp.status = 200
    /\ "success" \in DOMAIN Body
    /\ Body.success = TRUE

\* the inserts the handler sent to a table, by their position among its writes
SentTo(table) == { k \in DOMAIN call.writes : call.writes[k].table = table }

\* the row of this submission is in the table
Holds(table) == \E r \in table : r.id = call.ids.submission

\* C17: contact POST answers 200 with success:true if and only if the message
\* row is stored in exactly one of website_messages and contact_submissions; the
\* contact_submissions insert is sent only after the website_messages insert
\* returned an error; both inserts carry the submission id that is returned as
\* submission_id; when both inserts return an error the answer is 500.
C17_MessageStoredIffSuccess ==
    Posted =>
        /\ Succeeded <=> (Holds(website_messages) # Holds(contact_submissions))
        /\ ~(Holds(website_messages) /\ Holds(contact_submissions))
        /\ \A k \in SentTo("contact_submissions") :
              /\ call.wo.kind = "error"
              /\ \E j \in SentTo("website_messages") : j < k /\ ~call.writes[j].ok
        /\ \A k \in SentTo("website_messages") \cup SentTo("contact_submissions") :
              /\ call.writes[k].row.id = call.ids.submission
              /\ Succeeded => call.writes[k].row.id = Body.submission_id
        /\ (call.wo.kind = "error" /\ call.fo.kind = "error") => call.resp.status = 500

\* website_messages refused the row, contact_submissions took it, the answer is
\* 200 with the id of the stored row
C17_Witness ==
    /\ Posted
    /\ call.wo.kind = "error"
    /\ Succeeded
    /\ ~Holds(website_messages)
    /\ \E r \in contact_submissions : r.id = Body.submission_id

\* the message row was stored, going by the outcomes of the two main inserts
MainStored ==
    \/ call.wo.kind \in {"rows", "empty"}
    \/ call.wo.kind = "error" /\ call.fo.kind \in {"rows", "empty"}

\* C18: whatever the newsletter_subscribers insert and the prayer_requests insert
\* do (succeed, return an error, throw), the status is 200 when the message row
\* was stored and 500 when it was not; newsletter_subscribed is true exactly when
\* the newsletter insert was sent and returned a row; a prayer_requests insert is
\* sent only after the message row has been stored, and its source_submission_id
\* is the returned submission_id.
C18_OptionalInsertsDoNotDecide ==
    (Posted /\ Complete(call)) =>
        /\ call.resp.status = IF MainStored THEN 200 ELSE 500
        /\ Succeeded =>
              (Body.newsletter_subscribed <=>
                  (SentTo("newsletter_subscribers") # {} /\ call.no.kind = "rows"))
        /\ \A k \in SentTo("prayer_requests") :
              /\ \E j \in SentTo("website_messages") \cup SentTo("contact_submissions") :
                    j < k /\ call.writes[j].ok
              /\ Succeeded
              /\ call.writes[k].row.source_submission_id = Body.submission_id

\* the newsletter insert threw and the prayer insert returned an error, and the
\* submission succeeded all the same
C18_Witness ==
    /\ Posted
    /\ call.no.kind = "throw"
    /\ call.pro.kind = "error"
    /\ SentTo("prayer_requests") # {}
    /\ Succeeded
    /\ ~Body.newsletter_subscribed
    /\ Holds(website_messages)

\* C19: contact POST with a JSON object in which name, email, subject or message
\* is missing or empty answers 400 "Missing required fields" and sends no insert:
\* the four tables are as they were, whatever the newsletter and prayer opt-ins.
C19_MissingFieldsRejected ==
    [][ (call'.kind = "contact" /\ call'.parse = "object" /\ ~Complete(call')) =>
            /\ call'.resp = Json(400, [error |-> "Missing required fields"])
            /\ call'.writes = <<>>
            /\ forms' = forms ]_vars

\* a submission without a subject and with both opt-ins set was refused
C19_Witness ==
    /\ Posted
    /\ call.parse = "object"
    /\ Falsy(call.body.subject) /\ ~Falsy(call.body.name) /\ ~Falsy(call.body.email)
    /\ OptIn(call.body.newsletter) /\ OptIn(call.body.prayer)
    /\ call.resp.status = 400
    /\ newsletter_subscribers = {} /\ prayer_requests = {}

-----------------------------------------------------------------------------
(* Deliveries to the Stripe webhook *)

\* a transaction as the donation route stores it for a payment intent
PendingTransaction(paymentIntentId) ==
    Spread(NullTransaction,
           [ amount |-> 50, currency |-> "USD", category |-> "General Fund",
             payment_method |-> "Stripe", payment_status |-> "pending",
             transacted_at |-> 2026103100, stripe_payment_intent_id |-> paymentIntentId,
             fund_designation |-> "General Fund",
             metadata |-> [ frequency |-> "one-time", source |-> "church_website",
                            type |-> "one_time_donation", invoice_id |-> NULL ] ])

RecurringDonation(subscriptionId) ==
    [ stripe_subscription_id |-> subscriptionId, status |-> "active",
      next_payment_date |-> << DaysAfter(2026103100, 30) >>, cancelled_at |-> <<>> ]

PaymentIntent(id, error) ==
    [id |-> id, latest_charge |-> "ch_" \o id, last_payment_error |-> error]

Invoice(id, subscription) ==
    [ id |-> id, subscription |-> subscription, amount_paid |-> 2500,
      currency |-> "usd", customer |-> "cus_1" ]

Subscription(id, status) == [id |-> id, status |-> status]

Event(type, object) == [type |-> type, object |-> object]

\* the events a delivery can carry
WebhookEvents ==
    { Event("payment_intent.succeeded", PaymentIntent("pi_1", NULL)),
      Event("payment_intent.succeeded", PaymentIntent("pi_9", NULL)),
      Event("payment_intent.payment_failed", PaymentIntent("pi_1", "Your card was declined.")),
      Event("payment_intent.payment_failed", PaymentIntent("pi_1", NULL)),
      Event("invoice.payment_succeeded", Invoice("in_1", "sub_1")),
      Event("invoice.payment_succeeded", Invoice("in_2", NULL)),
      Event("invoice.payment_failed", Invoice("in_1", "sub_1")),
      Event("customer.subscription.created", Subscription("sub_1", "active")),
      Event("customer.subscription.updated", Subscription("sub_1", "active")),
      Event("customer.subscription.updated", Subscription("sub_1", "past_due")),
      Event("customer.subscription.deleted", Subscription("sub_1", "canceled")),
      Event("charge.refunded", PaymentIntent("pi_1", NULL)) }

\* the types whose handler creates a store client and writes
Writing ==
    { "payment_intent.succeeded", "payment_intent.payment_failed",
      "customer.subscription.updated", "customer.subscription.deleted" }

\* what stripe.subscriptions.retrieve returns: metadata filled in, or empty
Retrieved ==
    { [kind |-> "ok", metadata |-> [contact_id |-> "contact-1",
                                    fund_designation |-> "Missions",
                                    frequency |-> "weekly"]],
      [kind |-> "ok", metadata |-> [contact_id |-> "", fund_designation |-> NULL,
                                    frequency |-> NULL]],
      [kind |-> "throw", metadata |-> <<>>] }

InitWebhook ==
    /\ bundled = [events |-> defaultEvents, giving |-> defaultGivingPageContent]
    /\ call = [kind |-> "none"]
    /\ prev = [kind |-> "none"]
    /\ hook = useState
    /\ served = 0
    /\ events = EventsTable(2)
    /\ event_images = ImagesTable(1)
    /\ tenant_settings = SettingsTable(1)
    /\ pages = PagesTable(3)
    /\ page_sections = SectionsTable(1)
    /\ payment_categories = FundsTable(1)
    /\ NoForms
    /\ transactions \in {{}, {PendingTransaction("pi_1"), PendingTransaction("pi_2")}}
    /\ recurring_donations \in {{}, {RecurringDonation("sub_1")}}
    /\ contacts = {}
    /\ stripe = {}

\* one execution of webhook POST; an outcome is drawn for a call only when the
\* handler makes it
WebhookResolve ==
    /\ \E text \in {"ok", "throw"}, event \in WebhookEvents :
       \E signature \in IF text = "ok" THEN {"valid", "invalid", "missing"} ELSE {"none"} :
       LET verified == signature = "valid"
           invoiced == /\ verified /\ event.type = "invoice.payment_succeeded"
                       /\ ~Falsy(event.object.subscription)
       IN
       \E cc \in IF invoiced \/ (verified /\ event.type \in Writing)
                 THEN {"ok", "throw"} ELSE {"none"} :
       \E ro \in IF invoiced /\ cc = "ok" THEN Retrieved
                 ELSE {[kind |-> "none", metadata |-> <<>>]} :
       \E uo \in IF cc = "ok" /\ (invoiced => ro.kind = "ok") THEN WriteOutcomes
                 ELSE {NotMade} :
           LET now == 2026110106 + served
               r == WebhookPOST(text, signature, event, now, cc, ro, uo)
           IN  /\ call' = [kind |-> "webhook", text |-> text, signature |-> signature,
                           event |-> event, now |-> now, cc |-> cc, ro |-> ro, uo |-> uo,
                           completion |-> r.completion, caught |-> r.caught,
                           resp |-> r.resp,
                           reads |-> r.reads, writes |-> r.writes]
               /\ Effects(r)

\* Stripe delivers an event, as long as the bound on deliveries allows it
WebhookRequest ==
    /\ served < MaxDeliveries
    /\ served' = served + 1
    /\ UNCHANGED <<prev, hook>>
    /\ WebhookResolve

NextWebhook == WebhookRequest

SpecWebhook == InitWebhook /\ [][NextWebhook]_vars

\* C20: when the signature of the raw body does not verify, webhook POST answers
\* 400 and runs no handler: it sends no insert and no update, and transactions
\* and recurring_donations are as they were; the webhook route changes these
\* tables only in a delivery whose constructEvent succeeded.
C20_NoHandlerWithoutSignature ==
    [][ /\ (call'.kind = "webhook" /\ call'.signature \in {"invalid", "missing"}) =>
              /\ call'.resp = Json(400, [error |-> "Webhook signature verification failed"])
              /\ call'.writes = <<>>
              /\ ledger' = ledger
        /\ ledger' # ledger => (call'.kind = "webhook" /\ call'.signature = "valid") ]_vars

\* a payment_intent.succeeded event for a pending transaction arrived with a bad
\* signature after an earlier delivery; it was answered 400 and the transaction is
\* still pending
C20_Witness ==
    /\ call.kind = "webhook"
    /\ served = MaxDeliveries
    /\ call.signature = "invalid"
    /\ call.event = Event("payment_intent.succeeded", PaymentIntent("pi_1", NULL))
    /\ call.resp.status = 400
    /\ \E t \in transactions :
          t.stripe_payment_intent_id = "pi_1" /\ t.payment_status = "pending"

\* C22: once a transaction carries payment_status "succeeded" for a payment
\* intent, no later delivery to the webhook takes that status away from it: in
\* every step a row of a payment intent that was "succeeded" is still "succeeded".
C22_SucceededIsFinal ==
    [][ \A t \in transactions :
          (t.stripe_payment_intent_id # NULL /\ t.payment_status = "succeeded") =>
              \E u \in transactions' :
                  /\ u.stripe_payment_intent_id = t.stripe_payment_intent_id
                  /\ u.payment_status = "succeeded" ]_vars

\* C23: redelivery of a verified event does not change the store again; in
\* particular no two rows of transactions carry the same stripe_invoice_id.
C23_OneRowPerInvoice ==
    \A a \in transactions, b \in transactions :
        (a.stripe_invoice_id # NULL /\ a.stripe_invoice_id = b.stripe_invoice_id) => a = b

\* the calls a handler makes that can throw: the creation of the store client,
\* the retrieval of the subscription, the write
WebhookThrew(c) == c.cc = "throw" \/ c.ro.kind = "throw" \/ c.uo.kind = "throw"

\* C24: a delivery whose signature verified is answered 200 {received: true}
\* when its handler returned, whatever the type of the event and also when the
\* write of the handler came back with an error, which then changed nothing; it
\* is answered 500 {error: 'Webhook error'} exactly when a call of the handler threw.
C24_AcknowledgedUnlessThrown ==
    [][ (call'.kind = "webhook" /\ call'.text = "ok" /\ call'.signature = "valid") =>
            /\ call'.resp = IF WebhookThrew(call')
                            THEN Json(500, [error |-> "Webhook error"])
                            ELSE Json(200, [received |-> TRUE])
            /\ call'.uo.kind = "error" => ledger' = ledger ]_vars

\* a verified payment_intent.succeeded event whose update came back with an error
\* was acknowledged with 200, and the transaction is still pending
C24_Witness ==
    /\ call.kind = "webhook"
    /\ call.signature = "valid"
    /\ call.event = Event("payment_intent.succeeded", PaymentIntent("pi_1", NULL))
    /\ call.uo.kind = "error"
    /\ call.resp = Json(200, [received |-> TRUE])
    /\ \E t \in transactions :
          t.stripe_payment_intent_id = "pi_1" /\ t.payment_status = "pending"

-----------------------------------------------------------------------------
(* A donation and the deliveries that follow it *)

\* the JSON objects a donation request carries: donors of every kind giving once
\* or monthly, a named donor giving in every way and with the optional fields
\* filled in, and requests without a valid amount
DonationBodies ==
    LET Donor(isAnonymous, donorEmail, donorName) ==
            [ isAnonymous |-> isAnonymous, donorEmail |-> donorEmail,
              donorName |-> donorName ]
        Ada == Donor(<<>>, "ada@example.org", "Ada Lovelace")
        Giving(amount, donor, frequency, extras) ==
            [ amount |-> amount, currency |-> extras.currency,
              fundDesignation |-> extras.fundDesignation, notes |-> extras.notes,
              isAnonymous |-> donor.isAnonymous, donorEmail |-> donor.donorEmail,
              donorName |-> donor.donorName, frequency |-> frequency ]
        Bare == [currency |-> NULL, fundDesignation |-> NULL, notes |-> NULL]
        Filled == [currency |-> "eur", fundDesignation |-> "Missions",
                   notes |-> "In memory of G."]
    IN  { Giving(<<25>>, donor, frequency, Bare) :
            donor \in { Ada,
                        Donor(<<FALSE>>, "ada@example.org", NULL),
                        Donor(<<TRUE>>, NULL, NULL),
                        Donor(<<TRUE>>, "ada@example.org", "Ada Lovelace"),
                        Donor(<<>>, "", "Ada Lovelace") },
            frequency \in {NULL, "monthly"} }
        \cup { Giving(<<25>>, Ada, frequency, Bare) : frequency \in {"one-time", "weekly"} }
        \cup { Giving(<<25>>, Ada, frequency, Filled) : frequency \in {NULL, "monthly"} }
        \cup { Giving(amount, Donor(<<TRUE>>, NULL, NULL), NULL, Bare) :
                 amount \in { <<>>, <<0>>, <<-5>> } }

\* no donation yet; the donor is unknown, known from an earlier donation with a
\* contact and a Stripe customer, or stored twice as a contact
InitDonation ==
    /\ bundled = [events |-> defaultEvents, giving |-> defaultGivingPageContent]
    /\ call = [kind |-> "none"]
    /\ prev = [kind |-> "none"]
    /\ hook = useState
    /\ served = 0
    /\ events = EventsTable(2)
    /\ event_images = ImagesTable(1)
    /\ tenant_settings = SettingsTable(1)
    /\ pages = PagesTable(3)
    /\ page_sections = SectionsTable(1)
    /\ payment_categories = FundsTable(1)
    /\ NoForms
    /\ transactions = {}
    /\ recurring_donations = {}
    /\ LET EarlierContact(id) ==
               [ id |-> id, first_name |-> "Ada", last_name |-> "Lovelace",
                 email |-> "ada@example.org", phone |-> "", source |-> "online_donation" ]
           EarlierCustomer ==
               [ object |-> "customer", id |-> "cus_0", email |-> "ada@example.org",
                 name |-> "Ada Lovelace",
                 metadata |-> [contact_id |-> Uuid(0), source |-> "church_website"] ]
       IN  \/ contacts = {} /\ stripe = {}
           \/ contacts = {EarlierContact(Uuid(0))} /\ stripe = {EarlierCustomer}
           \/ /\ contacts = {EarlierContact(Uuid(0)), EarlierContact("uuid-00")}
              /\ stripe = {}

\* one execution of donation POST; an outcome is drawn for a call only when the
\* handler makes it, and the lookups answer from the tables as they are
DonationResolve ==
    /\ \E parse \in {"ok", "throw"} :
       \E body \in IF parse = "ok" THEN DonationBodies
                   ELSE { CHOOSE b \in DonationBodies : TRUE } :
       LET valid == /\ parse = "ok"
                    /\ body.amount # <<>> /\ body.amount[1] > 0
                    /\ ~(Falsy(body.donorEmail) /\ body.isAnonymous # <<TRUE>>)
           known == valid /\ body.isAnonymous # <<TRUE>> /\ ~Falsy(body.donorEmail)
           once == body.frequency \in {NULL, "one-time"}
           None == [kind |-> "none", error |-> NoError]
       IN
       \E cc \in IF known THEN {"ok", "throw"} ELSE {"none"} :
       \E lo \in IF cc = "ok"
                 THEN { [kind |-> "rows", error |-> NoError],
                        [kind |-> "throw", error |-> NoError],
                        [kind |-> "error", error |-> SingleError] }
                 ELSE {None} :
       \E found \in IF lo.kind = "rows"
                    THEN { { c \in contacts : c.email = body.donorEmail } } ELSE { {} } :
       \E co \in IF /\ lo.kind \in {"rows", "error"}
                    /\ ~(lo.kind = "rows" /\ Cardinality(found) = 1)
                    /\ ~Falsy(body.donorName)
                 THEN InsertOutcomes \ { [kind |-> "empty", error |-> NoError] }
                 ELSE {None} :
       \E so \in IF lo.kind \in {"rows", "error"} /\ co.kind # "throw"
                 THEN {"ok", "throw"} ELSE {"none"} :
       \E customers \in
             IF so = "ok"
             THEN LET listed == { c \in stripe : /\ c.object = "customer"
                                                 /\ c.email = body.donorEmail }
                  IN  IF listed = {} THEN { {} } ELSE { {c} : c \in listed }
             ELSE { {} } :
       LET paying == valid /\ (known => so = "ok") /\ (once \/ so = "ok")
       IN
       \E po \in IF paying /\ ~once THEN {"ok", "throw"} ELSE {"none"} :
       \E io \in IF paying /\ (once \/ po = "ok") THEN {"ok", "throw"} ELSE {"none"} :
       \E tc \in IF io = "ok" THEN {"ok", "throw"} ELSE {"none"} :
       \E to \in IF tc = "ok"
                 THEN InsertOutcomes \ { [kind |-> "empty", error |-> NoError] }
                 ELSE {None} :
           LET o == [ cc |-> cc, lo |-> lo, found |-> found, co |-> co, so |-> so,
                      customers |-> customers, po |-> po, io |-> io, tc |-> tc,
                      to |-> to ]
               n == served + 1
               now == 2026110100
               r == DonationPOST(parse, body, n, now, o)
           IN  /\ call' = [kind |-> "donation", parse |-> parse, body |-> body,
                           n |-> n, now |-> now, o |-> o,
                           completion |-> r.completion, caught |-> r.caught,
                           resp |-> r.resp,
                           reads |-> r.reads, writes |-> r.writes]
               /\ Effects(r)

\* a run begins with at most one donation
DonationRequest ==
    /\ call.kind = "none"
    /\ served' = served + 1
    /\ UNCHANGED <<prev, hook>>
    /\ DonationResolve

\* Stripe delivers events after the donation, or without one
NextDonation == DonationRequest \/ WebhookRequest

SpecDonation == InitDonation /\ [][NextDonation]_vars

\* the rows of transactions that the donation route created
FromDonationRoute(t) == t.metadata.type \in {"one_time_donation", "recurring_donation"}

\* the call was a delivery of a verified event of a type for a payment intent
VerifiedFor(c, type, id) ==
    /\ c.kind = "webhook" /\ c.text = "ok" /\ c.signature = "valid"
    /\ c.event.type = type
    /\ c.event.object.id = id

\* C21: the donation route only adds rows to transactions, and every row it adds
\* has payment_status "pending"; afterwards a row of the donation route becomes
\* "succeeded" only in the delivery of a verified payment_intent.succeeded event
\* for its stripe_payment_intent_id and "failed" only in the delivery of a verified
\* payment_intent.payment_failed event for it; every other step, an event for
\* another payment intent included, leaves the row as it is.
C21_StatusFollowsVerifiedEvents ==
    [][ /\ call'.kind = "donation" =>
              /\ transactions \subseteq transactions'
              /\ \A t \in transactions' \ transactions :
                     FromDonationRoute(t) /\ t.payment_status = "pending"
        /\ call'.kind = "webhook" =>
              /\ \A t \in transactions \ transactions' :
                     FromDonationRoute(t) =>
                         \/ VerifiedFor(call', "payment_intent.succeeded",
                                        t.stripe_payment_intent_id)
                         \/ VerifiedFor(call', "payment_intent.payment_failed",
                                        t.stripe_payment_intent_id)
              /\ \A u \in transactions' \ transactions :
                     FromDonationRoute(u) =>
                         /\ u.payment_status # "pending"
                         /\ u.payment_status = "succeeded" =>
                                VerifiedFor(call', "payment_intent.succeeded",
                                            u.stripe_payment_intent_id)
                         /\ u.payment_status = "failed" =>
                                VerifiedFor(call', "payment_intent.payment_failed",
                                            u.stripe_payment_intent_id) ]_vars

\* the row that a one-time donation created for payment intent pi_1 is still
\* pending after a verified payment_intent.succeeded event for pi_9 was handled
C21_Witness ==
    /\ VerifiedFor(call, "payment_intent.succeeded", "pi_9")
    /\ call.uo.kind = "ok"
    /\ \E t \in transactions :
          /\ FromDonationRoute(t)
          /\ t.stripe_payment_intent_id = "pi_1"
          /\ t.payment_status = "pending"

\* the inserts into transactions that the store applied in a request, by position
Recorded(c) ==
    { k \in DOMAIN c.writes : /\ c.writes[k].op = "insert"
                              /\ c.writes[k].table = "transactions"
                              /\ c.writes[k].ok }

\* the intents the payment processor created in a request, by position
Intended(c) ==
    { k \in DOMAIN c.writes : /\ c.writes[k].table = "stripe"
                              /\ c.writes[k].row.object \in {"payment_intent",
                                                             "setup_intent"} }

\* C25: a response of donation POST that carries a clientSecret comes after an
\* insert into transactions that the store applied, of a row with payment_status
\* "pending" that is in the table and, for a one-time donation, names the payment
\* intent created before it in the same request; when the record could not be
\* created the answer is 500 without a clientSecret, no row is stored, and the
\* intent created before it is still held by the payment processor, uncancelled.
C25_ClientSecretAfterPendingRecord ==
    call.kind = "donation" =>
        /\ "clientSecret" \in DOMAIN call.resp.body =>
              /\ call.resp.status = 200
              /\ \E k \in Recorded(call) :
                    LET row == call.writes[k].row
                    IN  /\ row.payment_status = "pending"
                        /\ row \in transactions
                        /\ "paymentIntentId" \in DOMAIN call.resp.body =>
                              /\ row.stripe_payment_intent_id = call.resp.body.paymentIntentId
                              /\ \E j \in Intended(call) :
                                    /\ j < k
                                    /\ call.writes[j].row.id = call.resp.body.paymentIntentId
                                    /\ call.writes[j].row.client_secret =
                                           call.resp.body.clientSecret
        /\ (call.o.tc = "throw" \/ call.o.to.kind \in {"error", "throw"}) =>
              /\ call.resp.status = 500
              /\ "clientSecret" \notin DOMAIN call.resp.body
              /\ Recorded(call) = {}
              /\ transactions = {}
              /\ \E j \in Intended(call) :
                    /\ call.writes[j].row \in stripe
                    /\ call.writes[j].row.status = "requires_payment_method"
              /\ \A k \in DOMAIN call.writes : call.writes[k].op = "insert"

\* a one-time donation whose payment intent was created and whose record the
\* store refused: answered 500, no row, and the payment intent is still there
C25_Witness ==
    /\ call.kind = "donation"
    /\ call.body.frequency = NULL
    /\ call.o.to.kind = "error"
    /\ call.resp = Json(500, [error |-> "Failed to create payment intent"])
    /\ transactions = {}
    /\ \E i \in stripe : /\ i.object = "payment_intent" /\ i.id = "pi_1"
                         /\ i.status = "requires_payment_method"

=============================================================================
